---- MODULE Spec2Model ----
(***************************************************************************)
(* Quoridor rules engine of the maze game: move resolver, path search,     *)
(* wall validator, turn controller (the useGameLogic hook) and the state   *)
(* reconciler used for online play.                                        *)
(***************************************************************************)
EXTENDS Integers, Sequences, FiniteSets, TLC

(***************************************************************************)
(* Bounds of the model.                                                    *)
(***************************************************************************)
\* side of the board while a whole game is followed (9 in the game)
BoardInPlay == 3
\* side of the board where one function is applied to drawn inputs
BoardInCalls == 4
\* wall allotment of each player (10 in the game, smaller here)
INITIAL_WALLS == 1
\* the longest turn duration offered by the menu, in seconds
MaxDuration == 2
\* the game clock is not followed beyond this many seconds
MaxGameTime == 1
\* size of the wall lists handed to the pure functions
MaxWallsIn == 2
\* the wall guide is clicked on grooves of the first MaxGuideRow groove rows
MaxGuideRow == 1
\* the remote AI answers within this many events of the hook
MaxPendingAge == 5
\* the remote AI is called at most this many times
MaxAiCalls == 1
\* snapshots published on the channel and not yet delivered to the client
MaxInFlight == 2

(***************************************************************************)
(* State of the useGameLogic hook (one client)                             *)
(***************************************************************************)
VARIABLES gameState, gameMode, startPosition, players, walls, currentPlayerId,
          winner, selectedPiece, validMoves, isPlacingWall, wallPreview,
          gameTime, turnTime, configuredTurnTime, gameDuration, reconciled,
          aiThinking, pendingAi, aiCalls, called, difficulty, aiType,
          onlinePlayerId, inbox, onlineGameId, onlineRequestTimeout, timers,
          pendingRequest, requests

vars == << gameState, gameMode, startPosition, players, walls, currentPlayerId,
           winner, selectedPiece, validMoves, isPlacingWall, wallPreview,
           gameTime, turnTime, configuredTurnTime, gameDuration, reconciled,
           aiThinking, pendingAi, aiCalls, called, difficulty, aiType,
           onlinePlayerId, inbox, onlineGameId, onlineRequestTimeout, timers,
           pendingRequest, requests >>

\* the state of a pending creation or matchmaking request: the id of the
\* online game, the id of the timer kept in the state, the timers of the
\* window, the call of the service not yet answered, the requests made
onlineRequest == << onlineGameId, onlineRequestTimeout, timers, pendingRequest, requests >>

(***************************************************************************)
(* Data model (src/types.ts)                                               *)
(***************************************************************************)
\* the board is BOARD_SIZE x BOARD_SIZE; gameMode is "CALL" where no game
\* is played and a function is applied to drawn inputs
BOARD_SIZE == IF gameMode = "CALL" THEN BoardInCalls ELSE BoardInPlay

Pos(r, c) == [r |-> r, c |-> c]

Rows == 0 .. (BOARD_SIZE - 1)

Cells == {Pos(r, c) : r \in Rows, c \in Rows}

OnBoard(p) == p.r >= 0 /\ p.r < BOARD_SIZE /\ p.c >= 0 /\ p.c < BOARD_SIZE

\* null for a Position, a Wall preview, a path
NoPos == [r |-> -9, c |-> -9]

NoWall == [r |-> -9, c |-> -9, orientation |-> "none"]

NoPath == << >>

Orientations == {"horizontal", "vertical"}

\* Omit<Wall, 'playerId'>: the wall slots strictly inside the grid
WallSlots ==
  {[r |-> r, c |-> c, orientation |-> "horizontal"] : r \in 1 .. (BOARD_SIZE - 1), c \in 0 .. (BOARD_SIZE - 2)}
  \cup
  {[r |-> r, c |-> c, orientation |-> "vertical"] : r \in 0 .. (BOARD_SIZE - 2), c \in 1 .. (BOARD_SIZE - 1)}

\* the grooves a player of the model clicks on
GuideSlots ==
  {w \in WallSlots : IF w.orientation = "horizontal" THEN w.r <= MaxGuideRow
                                                   ELSE w.r < MaxGuideRow}

WithOwner(w, id) == [r |-> w.r, c |-> w.c, orientation |-> w.orientation, playerId |-> id]

Other(id) == IF id = 1 THEN 2 ELSE 1

Min(a, b) == IF a < b THEN a ELSE b

Abs(x) == IF x < 0 THEN -x ELSE x

(***************************************************************************)
(* Move resolver and path search                                           *)
(***************************************************************************)
\* isMoveBlocked seeing only the first of the two cells a wall runs along
isMoveBlocked_firstCellOnly(from, to, ws) ==
  IF from.r = to.r
    THEN LET wallC == Min(from.c, to.c)
         IN \E i \in 1 .. Len(ws) :
              /\ ws[i].orientation = "vertical"
              /\ ws[i].c = wallC + 1
              /\ ws[i].r = from.r
    ELSE LET wallR == Min(from.r, to.r)
         IN \E i \in 1 .. Len(ws) :
              /\ ws[i].orientation = "horizontal"
              /\ ws[i].r = wallR + 1
              /\ ws[i].c = from.c

isMoveBlocked(from, to, ws) ==
  IF from.r = to.r
    THEN LET wallC == Min(from.c, to.c)
         IN \E i \in 1 .. Len(ws) :
              /\ ws[i].orientation = "vertical"
              /\ ws[i].c = wallC + 1
              /\ (ws[i].r = from.r \/ ws[i].r = from.r - 1)
    ELSE LET wallR == Min(from.r, to.r)
         IN \E i \in 1 .. Len(ws) :
              /\ ws[i].orientation = "horizontal"
              /\ ws[i].r = wallR + 1
              /\ (ws[i].c = from.c \/ ws[i].c = from.c - 1)

\* the four orthogonal candidates in the fixed order up, down, left, right
potentialMoves(p) ==
  << Pos(p.r - 1, p.c), Pos(p.r + 1, p.c), Pos(p.r, p.c - 1), Pos(p.r, p.c + 1) >>

\* jumpMoves offering the side cells together with the straight jump
jumpMoves_sideCellsAlways(p, ws, opp) ==
  LET dr == opp.r - p.r
      dc == opp.c - p.c
      jumpPos == Pos(opp.r + dr, opp.c + dc)
      d1 == IF dr = 0 THEN Pos(opp.r - 1, opp.c) ELSE Pos(opp.r, opp.c - 1)
      d2 == IF dr = 0 THEN Pos(opp.r + 1, opp.c) ELSE Pos(opp.r, opp.c + 1)
  IN (IF OnBoard(jumpPos) /\ ~isMoveBlocked(opp, jumpPos, ws) THEN << jumpPos >> ELSE << >>)
     \o (IF ~isMoveBlocked(opp, d1, ws) THEN << d1 >> ELSE << >>)
     \o (IF ~isMoveBlocked(opp, d2, ws) THEN << d2 >> ELSE << >>)

\* jumpMoves offering the side cells without looking for walls beside the opponent
jumpMoves_sideCellsThroughWalls(p, ws, opp) ==
  LET dr == opp.r - p.r
      dc == opp.c - p.c
      jumpPos == Pos(opp.r + dr, opp.c + dc)
      d1 == IF dr = 0 THEN Pos(opp.r - 1, opp.c) ELSE Pos(opp.r, opp.c - 1)
      d2 == IF dr = 0 THEN Pos(opp.r + 1, opp.c) ELSE Pos(opp.r, opp.c + 1)
  IN IF OnBoard(jumpPos) /\ ~isMoveBlocked(opp, jumpPos, ws)
       THEN << jumpPos >>
       ELSE << d1, d2 >>

\* the destinations produced when the candidate is the opponent's cell
jumpMoves(p, ws, opp) ==
  LET dr == opp.r - p.r
      dc == opp.c - p.c
      jumpPos == Pos(opp.r + dr, opp.c + dc)
      d1 == IF dr = 0 THEN Pos(opp.r - 1, opp.c) ELSE Pos(opp.r, opp.c - 1)
      d2 == IF dr = 0 THEN Pos(opp.r + 1, opp.c) ELSE Pos(opp.r, opp.c + 1)
  IN IF OnBoard(jumpPos) /\ ~isMoveBlocked(opp, jumpPos, ws)
       THEN << jumpPos >>
       ELSE (IF ~isMoveBlocked(opp, d1, ws) THEN << d1 >> ELSE << >>)
            \o (IF ~isMoveBlocked(opp, d2, ws) THEN << d2 >> ELSE << >>)

\* movesVia taking the opponent's cell for a free one
movesVia_ontoOpponent(p, move, ws, opp) ==
  IF ~OnBoard(move) \/ isMoveBlocked(p, move, ws)
    THEN << >>
    ELSE << move >>

\* what one candidate of getPossibleMoves contributes
movesVia(p, move, ws, opp) ==
  IF ~OnBoard(move) \/ isMoveBlocked(p, move, ws)
    THEN << >>
    ELSE IF move = opp THEN jumpMoves(p, ws, opp) ELSE << move >>

getPossibleMoves(p, ws, opp) ==
  LET pm == potentialMoves(p)
      moves == movesVia(p, pm[1], ws, opp) \o movesVia(p, pm[2], ws, opp)
               \o movesVia(p, pm[3], ws, opp) \o movesVia(p, pm[4], ws, opp)
  IN SelectSeq(moves, OnBoard)

SeqToSet(s) == {s[i] : i \in 1 .. Len(s)}

\* neighborsVia stepping onto the opponent's cell as onto a free one
neighborsVia_throughPawn(p, move, ws, opp) ==
  IF isMoveBlocked(p, move, ws)
    THEN << >>
    ELSE << move >>

\* what one candidate contributes to the neighbours of a cell in the search;
\* opp = NoPos is the call without opponentPos (walls only)
neighborsVia(p, move, ws, opp) ==
  IF isMoveBlocked(p, move, ws)
    THEN << >>
    ELSE IF opp # NoPos /\ move = opp THEN jumpMoves(p, ws, opp) ELSE << move >>

searchNeighbors(p, ws, opp) ==
  LET pm == potentialMoves(p)
  IN neighborsVia(p, pm[1], ws, opp) \o neighborsVia(p, pm[2], ws, opp)
     \o neighborsVia(p, pm[3], ws, opp) \o neighborsVia(p, pm[4], ws, opp)

\* the loop over the neighbours pushing each new path at the front of the queue
RECURSIVE enqueueNeighbors_pushFront(_, _, _, _)
enqueueNeighbors_pushFront(path, ns, queue, visited) ==
  IF ns = << >>
    THEN [queue |-> queue, visited |-> visited]
    ELSE LET n == Head(ns)
         IN IF OnBoard(n) /\ n \notin visited
              THEN enqueueNeighbors_pushFront(path, Tail(ns), << Append(path, n) >> \o queue, visited \cup {n})
              ELSE enqueueNeighbors_pushFront(path, Tail(ns), queue, visited)

\* the loop over the neighbours of one dequeued path: returns the queue and
\* the visited set after pushing every new on-board neighbour
RECURSIVE enqueueNeighbors(_, _, _, _)
enqueueNeighbors(path, ns, queue, visited) ==
  IF ns = << >>
    THEN [queue |-> queue, visited |-> visited]
    ELSE LET n == Head(ns)
         IN IF OnBoard(n) /\ n \notin visited
              THEN enqueueNeighbors(path, Tail(ns), Append(queue, Append(path, n)), visited \cup {n})
              ELSE enqueueNeighbors(path, Tail(ns), queue, visited)

RECURSIVE searchLoop(_, _, _, _, _)
searchLoop(queue, visited, goalRow, ws, opp) ==
  IF queue = << >>
    THEN NoPath
    ELSE LET path == Head(queue)
             currentPos == path[Len(path)]
         IN IF currentPos.r = goalRow
              THEN path
              ELSE \* nxt is bound by a set so that it is computed once
                   CHOOSE found \in
                     {searchLoop(nxt.queue, nxt.visited, goalRow, ws, opp) :
                        nxt \in {enqueueNeighbors(path, searchNeighbors(currentPos, ws, opp),
                                                   Tail(queue), visited)}} : TRUE

findShortestPath(startPos, goalRow, ws, opp) ==
  searchLoop(<< << startPos >> >>, {startPos}, goalRow, ws, opp)

(***************************************************************************)
(* Wall validator                                                          *)
(***************************************************************************)
wallInBounds(wall) ==
  /\ wall.orientation = "horizontal" =>
       ~(wall.c < 0 \/ wall.c >= BOARD_SIZE - 1 \/ wall.r <= 0 \/ wall.r >= BOARD_SIZE)
  /\ wall.orientation = "vertical" =>
       ~(wall.r < 0 \/ wall.r >= BOARD_SIZE - 1 \/ wall.c <= 0 \/ wall.c >= BOARD_SIZE)

\* wallCollides taking walls of one line two grooves apart for overlapping
wallCollides_overlapWithin2(w, wall) ==
  \/ w.r = wall.r /\ w.c = wall.c /\ w.orientation = wall.orientation
  \/ /\ wall.orientation = "horizontal"
     /\ \/ w.orientation = "horizontal" /\ w.r = wall.r /\ Abs(w.c - wall.c) < 3
        \/ w.orientation = "vertical" /\ w.r = wall.r - 1 /\ w.c = wall.c + 1
  \/ /\ wall.orientation # "horizontal"
     /\ \/ w.orientation = "vertical" /\ w.c = wall.c /\ Abs(w.r - wall.r) < 3
        \/ w.orientation = "horizontal" /\ w.r = wall.r + 1 /\ w.c = wall.c - 1

\* the body of the loop over the existing walls: w rejects wall
wallCollides(w, wall) ==
  \/ w.r = wall.r /\ w.c = wall.c /\ w.orientation = wall.orientation
  \/ /\ wall.orientation = "horizontal"
     /\ \/ w.orientation = "horizontal" /\ w.r = wall.r /\ Abs(w.c - wall.c) < 2
        \/ w.orientation = "vertical" /\ w.r = wall.r - 1 /\ w.c = wall.c + 1
  \/ /\ wall.orientation # "horizontal"
     /\ \/ w.orientation = "vertical" /\ w.c = wall.c /\ Abs(w.r - wall.r) < 2
        \/ w.orientation = "horizontal" /\ w.r = wall.r + 1 /\ w.c = wall.c - 1

\* pathsExist searching around the other pawn
pathsExist_aroundPawns(newWalls, p1, p2) ==
  /\ findShortestPath(p1.position, p1.goalRow, newWalls, p2.position) # NoPath
  /\ findShortestPath(p2.position, p2.goalRow, newWalls, p1.position) # NoPath

\* the reachability step: both players keep a walls-only path
pathsExist(newWalls, p1, p2) ==
  /\ findShortestPath(p1.position, p1.goalRow, newWalls, NoPos) # NoPath
  /\ findShortestPath(p2.position, p2.goalRow, newWalls, NoPos) # NoPath

isValidWallPlacement(wall, currentWalls, p1, p2) ==
  LET player == IF p1.id = wall.playerId THEN p1 ELSE p2
  IN /\ player.wallsLeft # 0
     /\ wallInBounds(wall)
     /\ \A i \in 1 .. Len(currentWalls) : ~wallCollides(currentWalls[i], wall)
     /\ pathsExist(Append(currentWalls, wall), p1, p2)

(***************************************************************************)
(* Local AI (the later getLocalAiMove of localAiService.ts)                *)
(***************************************************************************)
\* the number Infinity stands for in `?.length || Infinity`; every path is
\* shorter
Infinity == 1000

Difficulties == {"EASY", "MEDIUM", "HARD"}

\* path?.length || Infinity
pathLength(path) == IF path = NoPath THEN Infinity ELSE Len(path)

\* the null of findBestBlockingWall
NoBlockingWall == [wall |-> NoWall, score |-> 0]

\* potentialWalls for the step from p1 to p2 of the opponent's path
potentialWalls(p1, p2) ==
  IF p1.r = p2.r
    THEN LET c == Min(p1.c, p2.c) + 1
         IN << [r |-> p1.r, c |-> c, orientation |-> "vertical"] >>
            \o (IF p1.r > 0 THEN << [r |-> p1.r - 1, c |-> c, orientation |-> "vertical"] >> ELSE << >>)
    ELSE LET r == Min(p1.r, p2.r) + 1
         IN << [r |-> r, c |-> p1.c, orientation |-> "horizontal"] >>
            \o (IF p1.c > 0 THEN << [r |-> r, c |-> p1.c - 1, orientation |-> "horizontal"] >> ELSE << >>)

\* the walls visited when only the first segment is analysed
wallsToAnalyze_firstEdgeOnly(humanPath, i, n) ==
  potentialWalls(humanPath[i], humanPath[i + 1])

\* the walls the two loops visit, in order: segments i .. n of humanPath
RECURSIVE wallsToAnalyze(_, _, _)
wallsToAnalyze(humanPath, i, n) ==
  IF i > n THEN << >>
  ELSE potentialWalls(humanPath[i], humanPath[i + 1]) \o wallsToAnalyze(humanPath, i + 1, n)

\* (newHumanPathLength - humanPath.length) - (newMyPathLength - myPathLength)
\* in floating point: newMyPathLength is finite here, and an infinite
\* newHumanPathLength or myPathLength makes the score Infinity
wallScore(newHumanPathLength, humanLength, newMyPathLength, myPathLength) ==
  IF newHumanPathLength = Infinity \/ myPathLength = Infinity
    THEN Infinity
    ELSE (newHumanPathLength - humanLength) - (newMyPathLength - myPathLength)

\* the body of the inner loop for one wall: whether it is scored, and its score
evaluateWall(wall, aiPlayer, humanPlayer, ws, humanLength, myPathLength) ==
  IF ~isValidWallPlacement(WithOwner(wall, aiPlayer.id), ws, humanPlayer, aiPlayer)
    THEN [scored |-> FALSE, score |-> 0]
    ELSE CHOOSE e \in
           {IF len.my = Infinity
              THEN [scored |-> FALSE, score |-> 0]
              ELSE [scored |-> TRUE, score |-> wallScore(len.human, humanLength, len.my, myPathLength)] :
              len \in {[human |-> pathLength(findShortestPath(humanPlayer.position, humanPlayer.goalRow,
                                                              Append(ws, WithOwner(wall, aiPlayer.id)),
                                                              aiPlayer.position)),
                        my |-> pathLength(findShortestPath(aiPlayer.position, aiPlayer.goalRow,
                                                           Append(ws, WithOwner(wall, aiPlayer.id)),
                                                           humanPlayer.position))]}} : TRUE

\* the loops keeping the last of the walls of greatest score
RECURSIVE scanWalls_lastOnTies(_, _, _, _, _, _, _)
scanWalls_lastOnTies(todo, best, aiPlayer, humanPlayer, ws, humanLength, myPathLength) ==
  IF todo = << >> THEN best
  ELSE CHOOSE b \in
         {scanWalls_lastOnTies(Tail(todo),
                    IF e.scored /\ e.score >= best.score
                      THEN [wall |-> Head(todo), score |-> e.score]
                      ELSE best,
                    aiPlayer, humanPlayer, ws, humanLength, myPathLength) :
            e \in {evaluateWall(Head(todo), aiPlayer, humanPlayer, ws, humanLength, myPathLength)}} : TRUE

\* the loops of findBestBlockingWall over the walls still to visit
RECURSIVE scanWalls(_, _, _, _, _, _, _)
scanWalls(todo, best, aiPlayer, humanPlayer, ws, humanLength, myPathLength) ==
  IF todo = << >> THEN best
  ELSE CHOOSE b \in
         {scanWalls(Tail(todo),
                    IF e.scored /\ e.score > best.score
                      THEN [wall |-> Head(todo), score |-> e.score]
                      ELSE best,
                    aiPlayer, humanPlayer, ws, humanLength, myPathLength) :
            e \in {evaluateWall(Head(todo), aiPlayer, humanPlayer, ws, humanLength, myPathLength)}} : TRUE

findBestBlockingWall(aiPlayer, humanPlayer, ws) ==
  LET myPathLength == pathLength(findShortestPath(aiPlayer.position, aiPlayer.goalRow, ws, humanPlayer.position))
  IN CHOOSE found \in
       {IF humanPath = NoPath \/ Len(humanPath) < 2
          THEN NoBlockingWall
          ELSE CHOOSE r \in
                 {IF best.wall # NoWall /\ best.score > 0 THEN best ELSE NoBlockingWall :
                    best \in {scanWalls(wallsToAnalyze(humanPath, 1, Min(Len(humanPath) - 1, 4)),
                                        [wall |-> NoWall, score |-> -Infinity],
                                        aiPlayer, humanPlayer, ws, Len(humanPath), myPathLength)}} : TRUE :
          humanPath \in {findShortestPath(humanPlayer.position, humanPlayer.goalRow, ws, aiPlayer.position)}} : TRUE

AiAction(action, position, orientation) ==
  [action |-> action, position |-> position, orientation |-> orientation]

\* bestMove that stays on the AI's cell when no move is possible
bestMoveOf_stayWhenTrapped(aiPlayer, humanPlayer, ws) ==
  LET myPath == findShortestPath(aiPlayer.position, aiPlayer.goalRow, ws, humanPlayer.position)
      anyMoves == getPossibleMoves(aiPlayer.position, ws, humanPlayer.position)
  IN IF myPath # NoPath /\ Len(myPath) > 1 THEN myPath[2]
     ELSE IF anyMoves # << >> THEN anyMoves[1]
     ELSE aiPlayer.position

\* step 1 of getLocalAiMove: bestMove, NoPos when it stays null
bestMoveOf(aiPlayer, humanPlayer, ws) ==
  LET myPath == findShortestPath(aiPlayer.position, aiPlayer.goalRow, ws, humanPlayer.position)
      anyMoves == getPossibleMoves(aiPlayer.position, ws, humanPlayer.position)
  IN IF myPath # NoPath /\ Len(myPath) > 1 THEN myPath[2]
     ELSE IF anyMoves # << >> THEN anyMoves[1]
     ELSE NoPos

\* the wall decision in which MEDIUM places any wall the search returns
placesWall_mediumWhenever(diff, isWinning, score) ==
  \/ diff = "HARD" /\ ~isWinning /\ score > 0
  \/ diff = "HARD" /\ isWinning /\ score >= 3
  \/ diff = "MEDIUM" /\ score > 0

\* the wall decision in which MEDIUM does not place walls
placesWall_mediumNever(diff, isWinning, score) ==
  \/ diff = "HARD" /\ ~isWinning /\ score > 0
  \/ diff = "HARD" /\ isWinning /\ score >= 3

\* the wall decision in which HARD does not place walls when losing
placesWall_hardOnlyWinning(diff, isWinning, score) ==
  \/ diff = "HARD" /\ isWinning /\ score >= 3
  \/ diff = "MEDIUM" /\ ~isWinning /\ score > 0

\* the wall decision in which HARD, winning, places a wall of score 2
placesWall_hardWinningFrom2(diff, isWinning, score) ==
  \/ diff = "HARD" /\ ~isWinning /\ score > 0
  \/ diff = "HARD" /\ isWinning /\ score >= 2
  \/ diff = "MEDIUM" /\ ~isWinning /\ score > 0

\* the tests of step 3 that return wallAction
placesWall(diff, isWinning, score) ==
  \/ diff = "HARD" /\ ~isWinning /\ score > 0
  \/ diff = "HARD" /\ isWinning /\ score >= 3
  \/ diff = "MEDIUM" /\ ~isWinning /\ score > 0

\* steps 3 and 4 of getLocalAiMove
wallOrMove(aiPlayer, humanPlayer, ws, diff, moveAction) ==
  LET humanPathLength == pathLength(findShortestPath(humanPlayer.position, humanPlayer.goalRow, ws, aiPlayer.position))
      myPathLength == pathLength(findShortestPath(aiPlayer.position, aiPlayer.goalRow, ws, humanPlayer.position))
  IN CHOOSE a \in
       {IF /\ bestWallDetails # NoBlockingWall
           /\ placesWall(diff, myPathLength <= humanPathLength, bestWallDetails.score)
          THEN AiAction("PLACE_WALL", Pos(bestWallDetails.wall.r, bestWallDetails.wall.c),
                        bestWallDetails.wall.orientation)
          ELSE moveAction :
          bestWallDetails \in {findBestBlockingWall(aiPlayer, humanPlayer, ws)}} : TRUE

\* getLocalAiMove in which EASY goes on to consider a wall
getLocalAiMove_easyConsidersWalls(aiPlayer, humanPlayer, ws, diff) ==
  CHOOSE a \in
    {IF bestMove = NoPos THEN AiAction("PASS", NoPos, "none")
     ELSE IF aiPlayer.wallsLeft = 0 THEN AiAction("MOVE", bestMove, "none")
     ELSE wallOrMove(aiPlayer, humanPlayer, ws, IF diff = "EASY" THEN "HARD" ELSE diff,
                     AiAction("MOVE", bestMove, "none")) :
       bestMove \in {bestMoveOf(aiPlayer, humanPlayer, ws)}} : TRUE

\* getLocalAiMove(aiPlayer, humanPlayer, walls, diff, checkWall), where
\* checkWall(wall) is isValidWallPlacement(wall, walls, humanPlayer, aiPlayer)
getLocalAiMove(aiPlayer, humanPlayer, ws, diff) ==
  CHOOSE a \in
    {IF bestMove = NoPos THEN AiAction("PASS", NoPos, "none")
     ELSE IF diff = "EASY" THEN AiAction("MOVE", bestMove, "none")
     ELSE IF aiPlayer.wallsLeft = 0 THEN AiAction("MOVE", bestMove, "none")
     ELSE wallOrMove(aiPlayer, humanPlayer, ws, diff, AiAction("MOVE", bestMove, "none")) :
       bestMove \in {bestMoveOf(aiPlayer, humanPlayer, ws)}} : TRUE

(***************************************************************************)
(* The hook: initial state, effects and handlers                           *)
(***************************************************************************)
\* winner = NoWinner is the null winner
NoWinner == 0

\* reconciled = NoCall before applyActionToState is called
NoCall == [type |-> "none"]

\* onlinePlayerId = NoSeat is the null seat of a client that is not online
NoSeat == 0

\* onlineGameId = NoGame is the null id of a client that is in no online game
NoGame == 0

\* onlineRequestTimeout = NoTimer is the null timer id
NoTimer == 0

\* no call of createGame or findMatch is waiting for its answer
NoRequest == [kind |-> "none"]

\* the online part of resetGameState in the current render: the timer kept
\* in the state is cleared and the game id is forgotten
resetOnlineRequest ==
  /\ timers' = {t \in timers : t.id # onlineRequestTimeout}
  /\ onlineRequestTimeout' = NoTimer
  /\ onlineGameId' = NoGame

\* players = NoPlayers is the empty map {}
NoPlayers == << >>

Durations == 1 .. MaxDuration

\* the turn clock of a hook that has not started a game
DefaultTurnTime == 60

\* what the selection effect depends on
selectionDeps ==
  << currentPlayerId, gameState, gameMode, players, isPlacingWall, winner, walls, onlinePlayerId >>

isHumanTurn ==
  /\ gameMode # "PVC" \/ currentPlayerId = 1
  /\ gameMode # "PVO" \/ currentPlayerId = onlinePlayerId

\* the effect that selects the current player's pawn and computes its moves;
\* it runs after a render in which one of its dependencies changed, otherwise
\* the values set by the handler (sel, vm) stand
selectionEffect(force, sel, vm) ==
  IF force \/ selectionDeps' # selectionDeps
    THEN IF gameState' = "PLAYING" /\ ~isPlacingWall' /\ winner' = NoWinner /\ isHumanTurn'
           THEN IF players' # NoPlayers
                  THEN /\ selectedPiece' = players'[currentPlayerId'].position
                       /\ validMoves' = getPossibleMoves(players'[currentPlayerId'].position, walls',
                                                         players'[Other(currentPlayerId')].position)
                  ELSE /\ selectedPiece' = sel
                       /\ validMoves' = vm
           ELSE /\ selectedPiece' = NoPos
                /\ validMoves' = << >>
    ELSE /\ selectedPiece' = sel
         /\ validMoves' = vm

Init ==
  /\ gameState = "MENU"
  /\ gameMode = "PVP"
  /\ difficulty = "MEDIUM"
  /\ aiType = "LOCAL"
  /\ startPosition = "CENTER"
  /\ players = NoPlayers
  /\ walls = << >>
  /\ currentPlayerId = 1
  /\ winner = NoWinner
  /\ selectedPiece = NoPos
  /\ validMoves = << >>
  /\ isPlacingWall = FALSE
  /\ wallPreview = NoWall
  /\ gameTime = 0
  /\ turnTime = DefaultTurnTime
  /\ configuredTurnTime = DefaultTurnTime
  /\ gameDuration = 0
  /\ reconciled = NoCall
  /\ aiThinking = FALSE
  /\ pendingAi = NoCall
  /\ aiCalls = 0
  /\ called = NoCall
  /\ onlinePlayerId = NoSeat
  /\ inbox = << >>
  /\ onlineGameId = NoGame
  /\ onlineRequestTimeout = NoTimer
  /\ timers = {}
  /\ pendingRequest = NoRequest
  /\ requests = 0

\* what a callback of the current render reads from its closure
render ==
  [players |-> players, walls |-> walls, currentPlayerId |-> currentPlayerId,
   configuredTurnTime |-> configuredTurnTime, gameMode |-> gameMode,
   onlinePlayerId |-> onlinePlayerId]

\* the remote call of executeAiMove is pending while the hook handles
\* another event; it answers within MaxPendingAge events
awaitGetAiMove ==
  /\ pendingAi # NoCall => pendingAi.age < MaxPendingAge
  /\ pendingAi' = IF pendingAi = NoCall THEN NoCall ELSE [pendingAi EXCEPT !.age = @ + 1]
  /\ UNCHANGED << aiThinking, aiCalls, called >>

newPlayer(id, col) ==
  [id |-> id,
   position |-> IF id = 1 THEN Pos(BOARD_SIZE - 1, col) ELSE Pos(0, col),
   wallsLeft |-> INITIAL_WALLS,
   goalRow |-> IF id = 1 THEN 0 ELSE BOARD_SIZE - 1]

\* initializeLocalGame leaving the turn clock at what resetGameState set it
\* to, the duration configured before
initializeLocalGame_clockOfReset(mode, diff, type, duration, startPos, p1Col) ==
  /\ startPos = "CENTER" => p1Col = BOARD_SIZE \div 2
  /\ walls' = << >>
  /\ currentPlayerId' = 1
  /\ winner' = NoWinner
  /\ isPlacingWall' = FALSE
  /\ gameTime' = 0
  /\ players' = << newPlayer(1, p1Col),
                   newPlayer(2, IF startPos = "CENTER" THEN BOARD_SIZE \div 2
                                                       ELSE (BOARD_SIZE - 1) - p1Col) >>
  /\ configuredTurnTime' = duration
  /\ gameDuration' = duration
  /\ turnTime' = configuredTurnTime
  /\ gameState' = "PLAYING"
  /\ gameMode' = mode
  /\ difficulty' = diff
  /\ aiType' = type
  /\ onlinePlayerId' = NoSeat
  /\ inbox' = << >>
  /\ resetOnlineRequest
  /\ UNCHANGED << pendingRequest, requests >>
  /\ startPosition' = startPos
  /\ UNCHANGED << wallPreview, reconciled >>
  /\ selectionEffect(TRUE, NoPos, << >>)

\* initializeLocalGame after resetGameState; p1Col is the column drawn for
\* player 1 (the centre column unless the start position is random)
initializeLocalGame(mode, diff, type, duration, startPos, p1Col) ==
  /\ startPos = "CENTER" => p1Col = BOARD_SIZE \div 2
  /\ walls' = << >>
  /\ currentPlayerId' = 1
  /\ winner' = NoWinner
  /\ isPlacingWall' = FALSE
  /\ gameTime' = 0
  /\ players' = << newPlayer(1, p1Col),
                   newPlayer(2, IF startPos = "CENTER" THEN BOARD_SIZE \div 2
                                                       ELSE (BOARD_SIZE - 1) - p1Col) >>
  /\ configuredTurnTime' = duration
  /\ gameDuration' = duration
  /\ turnTime' = duration
  /\ gameState' = "PLAYING"
  /\ gameMode' = mode
  /\ difficulty' = diff
  /\ aiType' = type
  /\ onlinePlayerId' = NoSeat
  /\ inbox' = << >>
  /\ resetOnlineRequest
  /\ UNCHANGED << pendingRequest, requests >>
  /\ startPosition' = startPos
  /\ UNCHANGED << wallPreview, reconciled >>
  /\ selectionEffect(TRUE, NoPos, << >>)

\* the menu's Start Game button, for a game of the given mode and AI type
\* at one of the given difficulties
startGame(mode, type, diffs) ==
  /\ gameState = "MENU"
  /\ \E diff \in diffs, duration \in Durations, startPos \in {"CENTER", "RANDOM"}, p1Col \in Rows :
       initializeLocalGame(mode, diff, type, duration, startPos, p1Col)
  /\ awaitGetAiMove

\* the Play Again button of the game-over dialog
playAgain ==
  /\ gameState = "GAME_OVER"
  /\ \E p1Col \in Rows :
       initializeLocalGame(gameMode, difficulty, aiType, configuredTurnTime, startPosition, p1Col)
  /\ awaitGetAiMove

returnToMenu ==
  /\ gameState \in {"PLAYING", "GAME_OVER"}
  /\ gameState' = "MENU"
  /\ walls' = << >>
  /\ currentPlayerId' = 1
  /\ winner' = NoWinner
  /\ isPlacingWall' = FALSE
  /\ gameTime' = 0
  /\ turnTime' = configuredTurnTime
  /\ onlinePlayerId' = NoSeat
  /\ inbox' = << >>
  /\ resetOnlineRequest
  /\ UNCHANGED << pendingRequest, requests >>
  /\ UNCHANGED << gameMode, difficulty, aiType, startPosition, players, wallPreview,
                  configuredTurnTime, gameDuration, reconciled >>
  /\ selectionEffect(TRUE, NoPos, << >>)
  /\ awaitGetAiMove

\* applyActionToState, the commit of online play, and what it is given
moveAction(to) == [type |-> "MOVE", to |-> to, wall |-> NoWall]

wallAction(wall) == [type |-> "PLACE_WALL", to |-> NoPos, wall |-> wall]

timeoutAction == [type |-> "TIMEOUT", to |-> NoPos, wall |-> NoWall]

\* the OnlineGameData built from the state of the hook
currentState ==
  [players |-> players, walls |-> walls, currentPlayerId |-> currentPlayerId,
   winner |-> winner, gameTime |-> gameTime, turnTime |-> turnTime]

\* applyActionToState without the test of who is to act
applyActionToState_noTurnGate(state, action, actionByPlayerId) ==
  IF state.winner # NoWinner
    THEN state
    ELSE LET moved == IF action.type = "MOVE"
                        THEN [state.players EXCEPT ![actionByPlayerId].position = action.to]
                        ELSE state.players
             walled == IF action.type = "PLACE_WALL"
                         THEN [moved EXCEPT ![actionByPlayerId].wallsLeft = @ - 1]
                         ELSE moved
             won == IF action.type = "MOVE" /\ action.to.r = state.players[actionByPlayerId].goalRow
                      THEN actionByPlayerId
                      ELSE IF action.type = "TIMEOUT" THEN Other(actionByPlayerId) ELSE NoWinner
         IN [players |-> walled,
             walls |-> IF action.type = "PLACE_WALL"
                         THEN Append(state.walls, WithOwner(action.wall, actionByPlayerId))
                         ELSE state.walls,
             currentPlayerId |-> IF won = NoWinner THEN Other(actionByPlayerId)
                                                   ELSE state.currentPlayerId,
             winner |-> won,
             gameTime |-> state.gameTime,
             turnTime |-> configuredTurnTime]

applyActionToState(state, action, actionByPlayerId) ==
  IF state.winner # NoWinner \/ actionByPlayerId # state.currentPlayerId
    THEN state
    ELSE LET moved == IF action.type = "MOVE"
                        THEN [state.players EXCEPT ![actionByPlayerId].position = action.to]
                        ELSE state.players
             walled == IF action.type = "PLACE_WALL"
                         THEN [moved EXCEPT ![actionByPlayerId].wallsLeft = @ - 1]
                         ELSE moved
             won == IF action.type = "MOVE" /\ action.to.r = state.players[actionByPlayerId].goalRow
                      THEN actionByPlayerId
                      ELSE IF action.type = "TIMEOUT" THEN Other(actionByPlayerId) ELSE NoWinner
         IN [players |-> walled,
             walls |-> IF action.type = "PLACE_WALL"
                         THEN Append(state.walls, WithOwner(action.wall, actionByPlayerId))
                         ELSE state.walls,
             currentPlayerId |-> IF won = NoWinner THEN Other(actionByPlayerId)
                                                   ELSE state.currentPlayerId,
             winner |-> won,
             gameTime |-> state.gameTime,
             turnTime |-> configuredTurnTime]

\* what identifies the snapshot a successor was computed from: the
\* OnlineGameData without its clocks
snapshotOf(state) ==
  [players |-> state.players, walls |-> state.walls,
   currentPlayerId |-> state.currentPlayerId, winner |-> state.winner]

\* a snapshot on the channel of the online game: the seat that published it
\* and the snapshot it was computed from
message(data, by, from) == [data |-> data, by |-> by, from |-> snapshotOf(from)]

\* what a render shows; a step that changes none of it renders nothing
hookState ==
  << gameState, gameMode, players, walls, currentPlayerId, winner, selectedPiece, validMoves,
     isPlacingWall, wallPreview, gameTime, turnTime, configuredTurnTime, onlinePlayerId,
     onlineGameId, onlineRequestTimeout >>

\* the online branch of the timeout effect, which runs after every render
\* (applyActionToState among its dependencies is new in each): the
\* snapshot it publishes in the state a step leads to
timeoutEffect ==
  IF /\ hookState' # hookState
     /\ gameState' = "PLAYING"
     /\ turnTime' = 0
     /\ onlinePlayerId' # NoSeat
     /\ currentPlayerId' = onlinePlayerId'
    THEN << message(applyActionToState(currentState', timeoutAction, onlinePlayerId'),
                    onlinePlayerId', currentState') >>
    ELSE << >>

\* onlineService.publishGameState for the snapshots msgs of a handler and
\* for the timeout effect of the render that follows; the channel holds
\* them, in the order published, until they are delivered
publishGameState(msgs) ==
  /\ Len(inbox) + Len(msgs) + Len(timeoutEffect) <= MaxInFlight
  /\ inbox' = (inbox \o msgs) \o timeoutEffect

\* switchTurn leaving the turn clock where it was
switchTurn_keepsClock(h) ==
  /\ currentPlayerId' = Other(currentPlayerId)
  /\ isPlacingWall' = FALSE
  /\ wallPreview' = NoWall
  /\ UNCHANGED turnTime

\* switchTurn leaving the wall preview of the player who acted
switchTurn_keepsPreview(h) ==
  /\ currentPlayerId' = Other(currentPlayerId)
  /\ isPlacingWall' = FALSE
  /\ UNCHANGED wallPreview
  /\ turnTime' = h.configuredTurnTime

\* switchTurn of the render h: the other player is to act and the turn
\* clock restarts
switchTurn(h) ==
  /\ currentPlayerId' = Other(currentPlayerId)
  /\ isPlacingWall' = FALSE
  /\ wallPreview' = NoWall
  /\ turnTime' = h.configuredTurnTime

\* commitMove passing the turn after a winning move too
commitMove_switchAfterWin(h, to) ==
  /\ players' = [h.players EXCEPT ![h.currentPlayerId].position = to]
  /\ IF to.r = h.players[h.currentPlayerId].goalRow
       THEN /\ winner' = h.currentPlayerId
            /\ gameState' = "GAME_OVER"
       ELSE UNCHANGED << winner, gameState >>
  /\ switchTurn(h)
  /\ UNCHANGED walls

\* the local commit of a validated move of the player to act in render h
commitMove(h, to) ==
  /\ players' = [h.players EXCEPT ![h.currentPlayerId].position = to]
  /\ IF to.r = h.players[h.currentPlayerId].goalRow
       THEN /\ winner' = h.currentPlayerId
            /\ gameState' = "GAME_OVER"
            /\ UNCHANGED << currentPlayerId, isPlacingWall, wallPreview, turnTime >>
       ELSE /\ switchTurn(h)
            /\ UNCHANGED << winner, gameState >>
  /\ UNCHANGED walls

\* handleMove(to, from) of the render h: from is the selected piece for a
\* click on the board
handleMove(h, to, from) ==
  IF \/ from = NoPos
     \/ h.players = NoPlayers
     \/ h.gameMode = "PVO" /\ h.currentPlayerId # h.onlinePlayerId
    THEN UNCHANGED << gameState, gameMode, difficulty, aiType, onlinePlayerId, onlineRequest, inbox, startPosition,
                      players, walls, currentPlayerId, winner, selectedPiece, validMoves,
                      isPlacingWall, wallPreview, gameTime, turnTime, configuredTurnTime,
                      gameDuration, reconciled >>
    ELSE LET moveIsValid == to \in SeqToSet(getPossibleMoves(from, h.walls,
                                                             h.players[Other(h.currentPlayerId)].position))
             online == h.gameMode = "PVO" /\ h.onlinePlayerId # NoSeat
         IN /\ IF moveIsValid /\ ~online
                 THEN commitMove(h, to)
                 ELSE UNCHANGED << players, walls, currentPlayerId, winner, gameState,
                                   isPlacingWall, wallPreview, turnTime >>
            /\ UNCHANGED << gameMode, difficulty, aiType, onlinePlayerId, onlineRequest, startPosition, gameTime,
                            configuredTurnTime, gameDuration, reconciled >>
            /\ selectionEffect(FALSE, NoPos, << >>)
            /\ publishGameState(IF online /\ moveIsValid
                                  THEN << message(applyActionToState(currentState, moveAction(to),
                                                                     h.onlinePlayerId),
                                                  h.onlinePlayerId, currentState) >>
                                  ELSE << >>)

\* a click on a cell of the board, which forwards the cells shown as valid
\* moves while no wall is being placed
handleCellClick ==
  /\ gameState \in {"PLAYING", "GAME_OVER"}
  /\ ~isPlacingWall
  /\ \E to \in SeqToSet(validMoves) : handleMove(render, to, selectedPiece)
  /\ awaitGetAiMove

\* handlePlaceWall passing the turn when it refuses the wall
handlePlaceWall_refusalPassesTurn(h, wall, pv) ==
  IF \/ h.players = NoPlayers
     \/ h.players[h.currentPlayerId].wallsLeft <= 0
     \/ ~isValidWallPlacement(WithOwner(wall, h.currentPlayerId), h.walls, h.players[1], h.players[2])
    THEN /\ switchTurn(h)
         /\ UNCHANGED << gameState, gameMode, difficulty, aiType, onlinePlayerId, onlineRequest, inbox, startPosition, players, walls, winner, gameTime,
                         configuredTurnTime, gameDuration, reconciled >>
         /\ selectionEffect(FALSE, selectedPiece, validMoves)
    ELSE /\ walls' = Append(walls, WithOwner(wall, h.currentPlayerId))
         /\ players' = [players EXCEPT ![h.currentPlayerId].wallsLeft = @ - 1]
         /\ switchTurn(h)
         /\ UNCHANGED << gameState, gameMode, difficulty, aiType, onlinePlayerId, onlineRequest, inbox, startPosition, winner, gameTime, configuredTurnTime, gameDuration, reconciled >>
         /\ selectionEffect(FALSE, NoPos, << >>)

\* handlePlaceWall(wall) of the render h, followed by what the caller does
\* to the preview: pv is the preview the caller leaves when the wall is
\* refused
handlePlaceWall(h, wall, pv) ==
  IF \/ h.players = NoPlayers
     \/ h.gameMode = "PVO" /\ h.currentPlayerId # h.onlinePlayerId
     \/ h.players[h.currentPlayerId].wallsLeft <= 0
     \/ ~isValidWallPlacement(WithOwner(wall, h.currentPlayerId), h.walls, h.players[1], h.players[2])
    THEN /\ wallPreview' = pv
         /\ UNCHANGED << gameState, gameMode, difficulty, aiType, onlinePlayerId, onlineRequest, startPosition,
                         players, walls, currentPlayerId, winner, isPlacingWall, gameTime, turnTime,
                         configuredTurnTime, gameDuration, reconciled >>
         /\ selectionEffect(FALSE, selectedPiece, validMoves)
         /\ publishGameState(<< >>)
    ELSE IF h.gameMode = "PVO" /\ h.onlinePlayerId # NoSeat
           THEN /\ wallPreview' = pv
                /\ UNCHANGED << gameState, gameMode, difficulty, aiType, onlinePlayerId, onlineRequest, startPosition,
                                players, walls, currentPlayerId, winner, isPlacingWall, gameTime,
                                turnTime, configuredTurnTime, gameDuration, reconciled >>
                /\ selectionEffect(FALSE, selectedPiece, validMoves)
                /\ publishGameState(<< message(applyActionToState(currentState, wallAction(wall),
                                                                  h.onlinePlayerId),
                                               h.onlinePlayerId, currentState) >>)
           ELSE /\ walls' = Append(walls, WithOwner(wall, h.currentPlayerId))
                /\ players' = [players EXCEPT ![h.currentPlayerId].wallsLeft = @ - 1]
                /\ switchTurn(h)
                /\ UNCHANGED << gameState, gameMode, difficulty, aiType, onlinePlayerId, onlineRequest, startPosition,
                                winner, gameTime, configuredTurnTime, gameDuration, reconciled >>
                /\ selectionEffect(FALSE, NoPos, << >>)
                /\ publishGameState(<< >>)

\* handleWallPreview restarting the turn clock
handleWallPreview_restartsClock ==
  /\ gameState \in {"PLAYING", "GAME_OVER"}
  /\ isPlacingWall
  /\ \E wall \in GuideSlots : wallPreview' = wall
  /\ turnTime' = configuredTurnTime
  /\ UNCHANGED << gameState, gameMode, difficulty, aiType, onlinePlayerId, onlineRequest, startPosition, players,
                  walls, currentPlayerId, winner, selectedPiece, validMoves, isPlacingWall,
                  gameTime, configuredTurnTime, gameDuration, reconciled >>
  /\ publishGameState(<< >>)
  /\ awaitGetAiMove

\* a click on a groove of the wall guide, shown while placing a wall
handleWallPreview ==
  /\ gameState \in {"PLAYING", "GAME_OVER"}
  /\ isPlacingWall
  /\ \E wall \in GuideSlots : wallPreview' = wall
  /\ UNCHANGED << gameState, gameMode, difficulty, aiType, onlinePlayerId, onlineRequest, startPosition, players,
                  walls, currentPlayerId, winner, selectedPiece, validMoves, isPlacingWall,
                  gameTime, turnTime, configuredTurnTime, gameDuration, reconciled >>
  /\ publishGameState(<< >>)
  /\ awaitGetAiMove

\* the Confirm Wall button
confirmWallPlacement ==
  /\ gameState \in {"PLAYING", "GAME_OVER"}
  /\ wallPreview # NoWall
  /\ handlePlaceWall(render, wallPreview, NoWall)
  /\ awaitGetAiMove

\* the Cancel button beside Confirm Wall
cancelWallPlacement ==
  /\ gameState \in {"PLAYING", "GAME_OVER"}
  /\ wallPreview # NoWall
  /\ wallPreview' = NoWall
  /\ UNCHANGED << gameState, gameMode, difficulty, aiType, onlinePlayerId, onlineRequest, startPosition, players,
                  walls, currentPlayerId, winner, selectedPiece, validMoves, isPlacingWall,
                  gameTime, turnTime, configuredTurnTime, gameDuration, reconciled >>
  /\ publishGameState(<< >>)
  /\ awaitGetAiMove

\* the Place Wall / Cancel button, disabled while the AI is to act and for
\* a player with no wall left
togglePlacingWall ==
  /\ gameState \in {"PLAYING", "GAME_OVER"}
  /\ players # NoPlayers
  /\ players[currentPlayerId].wallsLeft # 0
  /\ isHumanTurn
  /\ wallPreview' = IF isPlacingWall THEN NoWall ELSE wallPreview
  /\ isPlacingWall' = ~isPlacingWall
  /\ UNCHANGED << gameState, gameMode, difficulty, aiType, onlinePlayerId, onlineRequest, startPosition, players,
                  walls, currentPlayerId, winner, gameTime, turnTime, configuredTurnTime,
                  gameDuration, reconciled >>
  /\ selectionEffect(FALSE, NoPos, << >>)
  /\ publishGameState(<< >>)
  /\ awaitGetAiMove

\* the one-second interval of the game clock
gameTick ==
  /\ gameState = "PLAYING"
  /\ gameTime < MaxGameTime
  /\ gameTime' = gameTime + 1
  /\ UNCHANGED << gameState, gameMode, difficulty, aiType, onlinePlayerId, onlineRequest, startPosition, players,
                  walls, currentPlayerId, winner, selectedPiece, validMoves, isPlacingWall,
                  wallPreview, turnTime, configuredTurnTime, gameDuration, reconciled >>
  /\ publishGameState(<< >>)
  /\ awaitGetAiMove

\* timeoutWinner naming the player who ran out of time
timeoutWinner_timedOutPlayer(current) == current

\* the local branch of the timeout effect: who wins when the turn clock is 0
timeoutWinner(current) == Other(current)

\* the one-second interval of the turn clock, and the timeout effect that
\* runs when the clock shows 0
turnTick ==
  /\ gameState = "PLAYING"
  /\ gameMode = "PVO" => currentPlayerId = onlinePlayerId /\ turnTime > 0
  /\ turnTime' = IF turnTime <= 1 THEN 0 ELSE turnTime - 1
  /\ IF turnTime' = 0 /\ gameMode # "PVO"
       THEN /\ winner' = timeoutWinner(currentPlayerId)
            /\ gameState' = "GAME_OVER"
       ELSE UNCHANGED << winner, gameState >>
  /\ UNCHANGED << gameMode, difficulty, aiType, onlinePlayerId, onlineRequest, startPosition, players, walls,
                  currentPlayerId, isPlacingWall, wallPreview, gameTime, configuredTurnTime,
                  gameDuration, reconciled >>
  /\ selectionEffect(FALSE, selectedPiece, validMoves)
  /\ publishGameState(<< >>)
  /\ awaitGetAiMove

\* player against player on one device
Next ==
  \/ startGame("PVP", "LOCAL", {"MEDIUM"})
  \/ playAgain
  \/ returnToMenu
  \/ handleCellClick
  \/ handleWallPreview
  \/ confirmWallPlacement
  \/ cancelWallPlacement
  \/ togglePlacingWall
  \/ gameTick
  \/ turnTick

Spec == Init /\ [][Next]_vars

\* the same game with the interval of the turn clock firing as long as a
\* game is played
SpecTurns == Init /\ [][Next]_vars /\ WF_vars(turnTick)

(***************************************************************************)
(* Player against the remote AI: executeAiMove                             *)
(***************************************************************************)
\* AiAction as the remote service may answer it; PASS stands for every
\* answer that is no move and no wall, and for a call that fails
AiActions ==
  {[action |-> "MOVE", position |-> p, orientation |-> "none"] : p \in Cells}
  \cup {[action |-> "PLACE_WALL", position |-> Pos(w.r, w.c), orientation |-> w.orientation] : w \in GuideSlots}
  \cup {[action |-> "PASS", position |-> NoPos, orientation |-> "none"]}

\* the AI trigger effect fires executeAiMove, which sends the remote call
\* from the current render
executeAiMove ==
  /\ gameState = "PLAYING"
  /\ gameMode = "PVC"
  /\ aiType = "GEMINI"
  /\ currentPlayerId = 2
  /\ winner = NoWinner
  /\ players # NoPlayers
  /\ ~aiThinking
  /\ aiCalls < MaxAiCalls
  /\ aiCalls' = aiCalls + 1
  /\ aiThinking' = TRUE
  /\ pendingAi' = [type |-> "call", h |-> render, age |-> 0]
  /\ UNCHANGED << gameState, gameMode, difficulty, aiType, onlinePlayerId, onlineRequest, inbox, startPosition, players, walls, currentPlayerId, winner,
                  selectedPiece, validMoves, isPlacingWall, wallPreview, gameTime, turnTime,
                  configuredTurnTime, gameDuration, reconciled, called >>

\* the catch block of executeAiMove: the first step of the AI's own path,
\* or a pass
fallbackMove(h) ==
  LET fallbackPath == findShortestPath(h.players[2].position, h.players[2].goalRow, h.walls,
                                       h.players[1].position)
  IN IF fallbackPath # NoPath /\ Len(fallbackPath) > 1
       THEN handleMove(h, fallbackPath[2], h.players[2].position)
       ELSE /\ switchTurn(h)
            /\ UNCHANGED << gameState, gameMode, difficulty, aiType, onlinePlayerId, onlineRequest, inbox, startPosition, players, walls, winner, gameTime,
                            configuredTurnTime, gameDuration, reconciled >>
            /\ selectionEffect(FALSE, NoPos, << >>)

\* executeAiMove after the remote call has answered with aiAction: the
\* callbacks are those of the render h that sent the call
applyAiAction(h, aiAction) ==
  CASE aiAction.action = "MOVE" ->
         IF aiAction.position \in SeqToSet(getPossibleMoves(h.players[2].position, h.walls,
                                                            h.players[1].position))
           THEN handleMove(h, aiAction.position, h.players[2].position)
           ELSE fallbackMove(h)
    [] aiAction.action = "PLACE_WALL" ->
         LET wallToPlace == [r |-> aiAction.position.r, c |-> aiAction.position.c,
                             orientation |-> aiAction.orientation]
         IN IF isValidWallPlacement(WithOwner(wallToPlace, 2), h.walls, h.players[1], h.players[2])
              THEN handlePlaceWall(h, wallToPlace, wallPreview)
              ELSE fallbackMove(h)
    [] OTHER -> fallbackMove(h)

\* the remote call answers
aiReply ==
  /\ pendingAi # NoCall
  /\ \E aiAction \in AiActions : applyAiAction(pendingAi.h, aiAction)
  /\ aiThinking' = FALSE
  /\ pendingAi' = NoCall
  /\ UNCHANGED << aiCalls, called >>

NextAi ==
  \/ startGame("PVC", "GEMINI", {"MEDIUM"})
  \/ playAgain
  \/ returnToMenu
  \/ handleCellClick
  \/ handleWallPreview
  \/ confirmWallPlacement
  \/ cancelWallPlacement
  \/ togglePlacingWall
  \/ gameTick
  \/ turnTick
  \/ executeAiMove
  \/ aiReply

SpecAi == Init /\ [][NextAi]_vars

(***************************************************************************)
(* State reconciler: applyActionToState, the commit used in online play    *)
(***************************************************************************)
\* the actions handed to the reconciler
ActionsIn ==
  {moveAction(to) : to \in Cells} \cup {wallAction(w) : w \in GuideSlots} \cup {timeoutAction}

\* what handleMove, handlePlaceWall and the timeout effect check before they
\* call the reconciler for the player to act
validatedFor(action, id) ==
  CASE action.type = "MOVE" ->
         /\ turnTime > 0
         /\ action.to \in SeqToSet(getPossibleMoves(players[id].position, walls, players[Other(id)].position))
    [] action.type = "PLACE_WALL" ->
         /\ turnTime > 0
         /\ players[id].wallsLeft > 0
         /\ isValidWallPlacement(WithOwner(action.wall, id), walls, players[1], players[2])
    [] OTHER -> turnTime = 0

\* an online game that has just started on a client
InitReconciler ==
  /\ gameState = "PLAYING"
  /\ gameMode = "PVO"
  /\ difficulty = "MEDIUM"
  /\ aiType = "LOCAL"
  /\ startPosition \in {"CENTER", "RANDOM"}
  /\ \E p1Col \in Rows :
       /\ startPosition = "CENTER" => p1Col = BOARD_SIZE \div 2
       /\ players = << newPlayer(1, p1Col),
                       newPlayer(2, IF startPosition = "CENTER" THEN BOARD_SIZE \div 2
                                                                ELSE (BOARD_SIZE - 1) - p1Col) >>
  /\ walls = << >>
  /\ currentPlayerId = 1
  /\ winner = NoWinner
  /\ selectedPiece = NoPos
  /\ validMoves = << >>
  /\ isPlacingWall = FALSE
  /\ wallPreview = NoWall
  /\ gameTime = 0
  /\ configuredTurnTime \in Durations
  /\ gameDuration = configuredTurnTime
  /\ turnTime \in 1 .. configuredTurnTime
  /\ reconciled = NoCall
  /\ aiThinking = FALSE
  /\ pendingAi = NoCall
  /\ aiCalls = 0
  /\ called = NoCall
  /\ onlinePlayerId = NoSeat
  /\ inbox = << >>
  /\ onlineGameId = NoGame
  /\ onlineRequestTimeout = NoTimer
  /\ timers = {}
  /\ pendingRequest = NoRequest
  /\ requests = 0

\* applyActionToState(currentState, action, actor); the snapshot it returns
\* becomes the state of the game
reconcile ==
  /\ gameMode = "PVO"
  /\ \E actor \in {1, 2}, action \in ActionsIn :
       /\ actor = currentPlayerId => validatedFor(action, actor)
       /\ LET next == applyActionToState(currentState, action, actor)
          IN /\ reconciled' = [type |-> "call", state |-> currentState, action |-> action,
                               by |-> actor, result |-> next]
             /\ players' = next.players
             /\ walls' = next.walls
             /\ currentPlayerId' = next.currentPlayerId
             /\ winner' = next.winner
             /\ gameTime' = next.gameTime
             /\ turnTime' = next.turnTime
             /\ gameState' = IF next.winner # NoWinner THEN "GAME_OVER" ELSE gameState
  /\ UNCHANGED << gameMode, difficulty, aiType, onlinePlayerId, onlineRequest, inbox, startPosition, selectedPiece, validMoves, isPlacingWall,
                  wallPreview, configuredTurnTime, gameDuration, aiThinking, pendingAi, aiCalls, called >>

\* the one-second interval of the turn clock in an online game
reconcilerTick ==
  /\ gameMode = "PVO"
  /\ gameState = "PLAYING"
  /\ turnTime > 0
  /\ turnTime' = IF turnTime <= 1 THEN 0 ELSE turnTime - 1
  /\ UNCHANGED << gameState, gameMode, difficulty, aiType, onlinePlayerId, onlineRequest, inbox, startPosition, players, walls, currentPlayerId, winner,
                  selectedPiece, validMoves, isPlacingWall, wallPreview, gameTime,
                  configuredTurnTime, gameDuration, reconciled, aiThinking, pendingAi, aiCalls, called >>

NextReconciler == reconcile \/ reconcilerTick

SpecReconciler == InitReconciler /\ [][NextReconciler]_vars

\* C3: an action of a player who is not the one to act returns the
\* snapshot it was given
C3_TurnGate ==
  (reconciled # NoCall /\ reconciled.by # reconciled.state.currentPlayerId)
    => reconciled.result = reconciled.state

\* the player who is not to act handed in a wall after walls and moves of
\* both players
C3_Witness ==
  /\ reconciled # NoCall
  /\ reconciled.by # reconciled.state.currentPlayerId
  /\ reconciled.state.winner = NoWinner
  /\ reconciled.action.type = "PLACE_WALL"
  /\ Len(reconciled.state.walls) >= 1

(***************************************************************************)
(* Wall geometry as the rules state it, used to state the properties       *)
(***************************************************************************)
\* a wall blocks the step between two orthogonally adjacent cells a and b
Blocks(w, a, b) ==
  IF w.orientation = "horizontal"
    THEN a.c = b.c /\ a.c \in {w.c, w.c + 1} /\ {a.r, b.r} = {w.r - 1, w.r}
    ELSE a.r = b.r /\ a.r \in {w.r, w.r + 1} /\ {a.c, b.c} = {w.c - 1, w.c}

Adjacent(a, b) == Abs(a.r - b.r) + Abs(a.c - b.c) = 1

StepFree(a, b, ws) ==
  Adjacent(a, b) /\ \A i \in 1 .. Len(ws) : ~Blocks(ws[i], a, b)

\* the cells of the board one free step away from a
FreeSteps(a, ws) ==
  {b \in {Pos(a.r - 1, a.c), Pos(a.r + 1, a.c), Pos(a.r, a.c - 1), Pos(a.r, a.c + 1)} :
     OnBoard(b) /\ StepFree(a, b, ws)}

RECURSIVE ReachableFrom(_, _, _)
ReachableFrom(done, frontier, ws) ==
  IF frontier = {} THEN done
  ELSE CHOOSE all \in
         {ReachableFrom(done \cup next, next, ws) :
            next \in {UNION {FreeSteps(a, ws) : a \in frontier} \ done}} : TRUE

\* the cells reachable from S by steps that no wall blocks
Reachable(S, ws) == ReachableFrom(S, S, ws)

HasTopologicalPath(p, goalRow, ws) ==
  {cell \in Reachable({p}, ws) : cell.r = goalRow} # {}

SameGroove(a, b) == a.r = b.r /\ a.c = b.c /\ a.orientation = b.orientation

Overlapping(a, b) ==
  /\ a.orientation = b.orientation
  /\ IF a.orientation = "horizontal" THEN a.r = b.r /\ Abs(a.c - b.c) < 2
                                     ELSE a.c = b.c /\ Abs(a.r - b.r) < 2

\* a horizontal wall h and a vertical wall v forming a "+"
Crossing(h, v) ==
  /\ h.orientation = "horizontal"
  /\ v.orientation = "vertical"
  /\ v.r = h.r - 1
  /\ v.c = h.c + 1

Colliding(a, b) ==
  SameGroove(a, b) \/ Overlapping(a, b) \/ Crossing(a, b) \/ Crossing(b, a)

(***************************************************************************)
(* Properties of local play                                                *)
(***************************************************************************)
\* C1: while a game is played, each player has a path over free steps
\* (walls only, pawns ignored) from its cell to its goal row
C1_PathToGoalKept ==
  gameState = "PLAYING" =>
    \A id \in {1, 2} : HasTopologicalPath(players[id].position, players[id].goalRow, walls)

\* C2: no two committed walls are the same groove, overlap on a line or
\* cross, whatever the order they were placed in
C2_NoCollidingWalls ==
  \A i, j \in 1 .. Len(walls) : i # j => ~Colliding(walls[i], walls[j])

\* C4: once the game is over nothing changes the positions, the walls, the
\* walls left, the player to act, the winner or the turn clock, until a new
\* game starts or the game is left
C4_GameOverIsTerminal ==
  [][(gameState = "GAME_OVER" /\ gameState' = "GAME_OVER")
       => UNCHANGED << players, walls, currentPlayerId, winner, turnTime >>]_vars

\* the player whose action a step commits: seat 2 when the remote call
\* answers, the player to act otherwise
Actor ==
  IF pendingAi # NoCall /\ pendingAi' = NoCall THEN pendingAi.h.currentPlayerId
                                               ELSE currentPlayerId

\* a step of a game being played that commits a move or a wall
MoveCommitted ==
  /\ gameState = "PLAYING"
  /\ gameState' # "MENU"
  /\ players'[Actor].position # players[Actor].position

WallCommitted ==
  /\ gameState = "PLAYING"
  /\ Len(walls') = Len(walls) + 1

\* C5: an accepted move of the player to act onto its goal row ends the
\* game with the mover as winner and leaves the turn with it; any other
\* accepted move or wall of the player to act keeps the game going and
\* passes the turn
C5_TurnAdvance ==
  [][((MoveCommitted \/ WallCommitted) /\ Actor = currentPlayerId) =>
       IF players'[currentPlayerId].position.r = players[currentPlayerId].goalRow
         THEN /\ gameState' = "GAME_OVER"
              /\ winner' = currentPlayerId
              /\ currentPlayerId' = currentPlayerId
         ELSE /\ gameState' = "PLAYING"
              /\ winner' = NoWinner
              /\ currentPlayerId' = Other(currentPlayerId)]_vars

\* a player has won by moving onto its goal row and is still the one to act
C5_Witness ==
  /\ gameState = "GAME_OVER"
  /\ winner # NoWinner
  /\ players[winner].position.r = players[winner].goalRow
  /\ currentPlayerId = winner
  /\ Len(walls) >= 1

\* C6: while a game is played, the step that brings the turn clock to 0
\* ends the game with the player who was not to act as winner, never the
\* player who ran out of time
C6_TimeoutLoses ==
  [][(gameState = "PLAYING" /\ turnTime' = 0) =>
       /\ gameState' = "GAME_OVER"
       /\ winner' = Other(currentPlayerId)
       /\ winner' # currentPlayerId'
       /\ currentPlayerId' = currentPlayerId]_vars

\* seat 2 ran out of time while the remote call was pending, after a wall
\* of player 1
C6_Witness ==
  /\ gameState = "GAME_OVER"
  /\ turnTime = 0
  /\ currentPlayerId = 2
  /\ winner = 1
  /\ pendingAi # NoCall
  /\ Len(walls) >= 1

\* C7: after an accepted move or wall that does not end the game the turn
\* clock shows the turn duration the current game was configured with,
\* never what was left of the previous turn or the duration of an earlier
\* game
C7_TimerReset ==
  [][((MoveCommitted \/ WallCommitted) /\ winner' = NoWinner) => turnTime' = gameDuration]_vars

(***************************************************************************)
(* The move resolver on its own: calculateValidMoves applied to positions  *)
(* and wall lists drawn from bounded sets                                  *)
(***************************************************************************)
RECURSIVE SetToSeq(_)
SetToSeq(S) ==
  IF S = {} THEN << >>
  ELSE LET x == CHOOSE y \in S : TRUE IN << x >> \o SetToSeq(S \ {x})

\* an order on the grooves, so that each set is built once
SlotRank(w) == (IF w.orientation = "horizontal" THEN 0 ELSE 100) + 10 * w.r + w.c

\* the sets of at most k grooves, no two of them colliding
RECURSIVE WallSetsUpTo(_)
WallSetsUpTo(k) ==
  IF k = 0 THEN {{}}
  ELSE LET smaller == WallSetsUpTo(k - 1)
       IN smaller \cup
          UNION {{T \cup {w} : w \in {x \in WallSlots :
                                         \A a \in T : SlotRank(a) < SlotRank(x) /\ ~Colliding(a, x)}} :
                   T \in {U \in smaller : Cardinality(U) = k - 1}}

\* wall lists of at most MaxWallsIn grooves, no two of them colliding
WallListsIn ==
  {SetToSeq({WithOwner(w, 1) : w \in S}) : S \in WallSetsUpTo(MaxWallsIn)}

playerAt(id, p, left) ==
  [id |-> id, position |-> p, wallsLeft |-> left,
   goalRow |-> IF id = 1 THEN 0 ELSE BOARD_SIZE - 1]

InitMoves ==
  /\ gameState = "PLAYING"
  /\ gameMode = "CALL"
  /\ difficulty = "MEDIUM"
  /\ aiType = "LOCAL"
  /\ startPosition = "CENTER"
  /\ walls \in WallListsIn
  /\ \E p1 \in Cells, p2 \in Cells :
       /\ p1 # p2
       /\ players = << playerAt(1, p1, INITIAL_WALLS), playerAt(2, p2, INITIAL_WALLS) >>
  /\ \A id \in {1, 2} : HasTopologicalPath(players[id].position, players[id].goalRow, walls)
  /\ currentPlayerId \in {1, 2}
  /\ winner = NoWinner
  /\ selectedPiece = NoPos
  /\ validMoves = << >>
  /\ isPlacingWall = FALSE
  /\ wallPreview = NoWall
  /\ gameTime = 0
  /\ turnTime = MaxDuration
  /\ configuredTurnTime = MaxDuration
  /\ gameDuration = MaxDuration
  /\ reconciled = NoCall
  /\ aiThinking = FALSE
  /\ pendingAi = NoCall
  /\ aiCalls = 0
  /\ called = NoCall
  /\ onlinePlayerId = NoSeat
  /\ inbox = << >>
  /\ onlineGameId = NoGame
  /\ onlineRequestTimeout = NoTimer
  /\ timers = {}
  /\ pendingRequest = NoRequest
  /\ requests = 0

\* calculateValidMoves(pos) for the pawn of the player to act
calculateValidMoves ==
  /\ selectedPiece = NoPos
  /\ selectedPiece' = players[currentPlayerId].position
  /\ validMoves' = getPossibleMoves(players[currentPlayerId].position, walls,
                                    players[Other(currentPlayerId)].position)
  /\ UNCHANGED << gameState, gameMode, difficulty, aiType, onlinePlayerId, onlineRequest, inbox, startPosition, players, walls, currentPlayerId, winner,
                  isPlacingWall, wallPreview, gameTime, turnTime, configuredTurnTime, gameDuration, reconciled,
                  aiThinking, pendingAi, aiCalls, called >>

NextMoves == calculateValidMoves

SpecMoves == InitMoves /\ [][NextMoves]_vars

\* the mover, the opponent and the cells the jump rule speaks of
Mover == players[currentPlayerId].position

Opponent == players[Other(currentPlayerId)].position

JumpCell == Pos(2 * Opponent.r - Mover.r, 2 * Opponent.c - Mover.c)

\* the two cells beside the opponent, diagonal to the mover
SideCells ==
  IF Opponent.r = Mover.r
    THEN {Pos(Opponent.r - 1, Opponent.c), Pos(Opponent.r + 1, Opponent.c)}
    ELSE {Pos(Opponent.r, Opponent.c - 1), Pos(Opponent.r, Opponent.c + 1)}

MovesComputed == selectedPiece # NoPos

FacingOpponent == StepFree(Mover, Opponent, walls)

StraightJumpPossible == OnBoard(JumpCell) /\ StepFree(Opponent, JumpCell, walls)

\* C8: facing the opponent with the straight jump possible, the moves hold
\* the jump cell and neither the opponent's cell nor a cell beside it
C8_StraightJump ==
  (MovesComputed /\ FacingOpponent /\ StraightJumpPossible) =>
    /\ JumpCell \in SeqToSet(validMoves)
    /\ Opponent \notin SeqToSet(validMoves)
    /\ SideCells \cap SeqToSet(validMoves) = {}

\* a straight jump over the opponent with a wall on the board
C8_Witness ==
  /\ MovesComputed /\ FacingOpponent /\ StraightJumpPossible
  /\ Len(walls) >= 1
  /\ JumpCell \in SeqToSet(validMoves)

\* C9: facing the opponent with the straight jump off the board or blocked,
\* the moves hold of the cells beside the opponent exactly those on the
\* board with no wall between them and the opponent, and neither the
\* opponent's cell nor the jump cell
C9_DiagonalFallback ==
  (MovesComputed /\ FacingOpponent /\ ~StraightJumpPossible) =>
    /\ SideCells \cap SeqToSet(validMoves)
         = {d \in SideCells : OnBoard(d) /\ StepFree(Opponent, d, walls)}
    /\ Opponent \notin SeqToSet(validMoves)
    /\ JumpCell \notin SeqToSet(validMoves)

\* the straight jump is blocked by a wall behind the opponent, one side cell
\* is taken and the other is walled off
C9_Witness ==
  /\ MovesComputed /\ FacingOpponent
  /\ OnBoard(JumpCell) /\ ~StepFree(Opponent, JumpCell, walls)
  /\ Cardinality(SideCells \cap SeqToSet(validMoves)) = 1
  /\ \E d \in SideCells : OnBoard(d) /\ ~StepFree(Opponent, d, walls)

\* C10: when the mover does not face the opponent, the moves are exactly the
\* cells of the board one free step away
C10_PlainSteps ==
  (MovesComputed /\ ~FacingOpponent) =>
    /\ SeqToSet(validMoves) = {n \in Cells : StepFree(Mover, n, walls)}
    /\ Len(validMoves) = Cardinality(SeqToSet(validMoves))

\* the opponent is next to the mover behind a wall, and a second step of the
\* mover is walled off
C10_Witness ==
  /\ MovesComputed
  /\ Adjacent(Mover, Opponent) /\ ~FacingOpponent
  /\ Len(validMoves) >= 1
  /\ Len(walls) >= 2

(***************************************************************************)
(* The wall validator alone: isValidWallPlacement applied to drawn walls   *)
(***************************************************************************)
\* the walls handed to the validator: every groove of the board and the
\* grooves one step outside it
WallCandidates ==
  {[r |-> r, c |-> c, orientation |-> o] : r \in -1 .. BOARD_SIZE, c \in -1 .. BOARD_SIZE, o \in Orientations}

\* a position of a game in progress: committed walls that leave both
\* players a path, two pawns on different cells, the player to place a wall
\* with or without walls left; player 1 is drawn in the left half of the
\* board, the other positions being their mirror images
InitWalls ==
  /\ gameState = "PLAYING"
  /\ gameMode = "CALL"
  /\ difficulty = "MEDIUM"
  /\ aiType = "LOCAL"
  /\ startPosition = "CENTER"
  /\ walls \in WallListsIn
  /\ currentPlayerId \in {1, 2}
  /\ \E p1 \in Cells, p2 \in Cells, left \in {0, INITIAL_WALLS} :
       /\ p1 # p2
       /\ 2 * p1.c < BOARD_SIZE
       /\ players = << playerAt(1, p1, IF currentPlayerId = 1 THEN left ELSE INITIAL_WALLS),
                       playerAt(2, p2, IF currentPlayerId = 2 THEN left ELSE INITIAL_WALLS) >>
  /\ \A id \in {1, 2} : HasTopologicalPath(players[id].position, players[id].goalRow, walls)
  /\ winner = NoWinner
  /\ selectedPiece = NoPos
  /\ validMoves = << >>
  /\ isPlacingWall = TRUE
  /\ wallPreview = NoWall
  /\ gameTime = 0
  /\ turnTime = MaxDuration
  /\ configuredTurnTime = MaxDuration
  /\ gameDuration = MaxDuration
  /\ reconciled = NoCall
  /\ aiThinking = FALSE
  /\ pendingAi = NoCall
  /\ aiCalls = 0
  /\ called = NoCall
  /\ onlinePlayerId = NoSeat
  /\ inbox = << >>
  /\ onlineGameId = NoGame
  /\ onlineRequestTimeout = NoTimer
  /\ timers = {}
  /\ pendingRequest = NoRequest
  /\ requests = 0

\* isValidWallPlacement(wall, walls, players[1], players[2]) for every
\* candidate wall of the player to act: the candidates it accepts
validateWalls ==
  /\ called = NoCall
  /\ called' = [type |-> "isValidWallPlacement",
                accepted |-> {w \in WallCandidates :
                                isValidWallPlacement(WithOwner(w, currentPlayerId), walls,
                                                     players[1], players[2])}]
  /\ UNCHANGED << gameState, gameMode, difficulty, aiType, onlinePlayerId, onlineRequest, inbox, startPosition, players, walls, currentPlayerId, winner,
                  selectedPiece, validMoves, isPlacingWall, wallPreview, gameTime, turnTime,
                  configuredTurnTime, gameDuration, reconciled, aiThinking, pendingAi, aiCalls >>

NextWalls == validateWalls

SpecWalls == InitWalls /\ [][NextWalls]_vars

WallsValidated == called # NoCall /\ called.type = "isValidWallPlacement"

\* the placement rules as stated: walls left, inside the grid, colliding
\* with no committed wall, and a walls-only path kept for both players
LegalPlacement(w) ==
  /\ players[currentPlayerId].wallsLeft > 0
  /\ w \in WallSlots
  /\ \A i \in 1 .. Len(walls) : ~Colliding(walls[i], w)
  /\ \A id \in {1, 2} :
       HasTopologicalPath(players[id].position, players[id].goalRow,
                          Append(walls, WithOwner(w, currentPlayerId)))

\* C11: the validator accepts a wall if and only if its owner has a wall
\* left, the wall is inside the grid, it is not the same groove as, does not
\* overlap and does not cross a committed wall, and both players keep a
\* walls-only path to their goal rows
C11_WallLegality ==
  WallsValidated => called.accepted = {w \in WallCandidates : LegalPlacement(w)}

\* an accepted wall on the line of a committed wall, two grooves away from
\* it, while another wall of that line is refused for overlapping
C11_Witness ==
  /\ WallsValidated
  /\ \E w \in called.accepted : \E i \in 1 .. Len(walls) :
       /\ walls[i].orientation = "horizontal" /\ w.orientation = "horizontal"
       /\ walls[i].r = w.r /\ Abs(walls[i].c - w.c) = 2
  /\ \E w \in WallSlots \ called.accepted : \E i \in 1 .. Len(walls) : Overlapping(walls[i], w)

\* C12: for a player with walls left, a wall of the grid that collides with
\* no committed wall is refused exactly when, once inserted, some player has
\* no route over free steps from its cell to its goal row; where the pawns
\* stand in each other's way plays no part
C12_WallsOnly ==
  (WallsValidated /\ players[currentPlayerId].wallsLeft > 0) =>
    \A w \in {x \in WallSlots : \A i \in 1 .. Len(walls) : ~Colliding(walls[i], x)} :
      (w \notin called.accepted) <=>
        (\E id \in {1, 2} :
           ~HasTopologicalPath(players[id].position, players[id].goalRow,
                               Append(walls, WithOwner(w, currentPlayerId))))

\* a wall is accepted although, with it inserted, the search that treats the
\* other pawn as an obstacle finds no path for a player; and a wall that
\* collides with nothing is refused for enclosing a player
C12_Witness ==
  /\ WallsValidated
  /\ \E w \in called.accepted : \E id \in {1, 2} :
       findShortestPath(players[id].position, players[id].goalRow,
                        Append(walls, WithOwner(w, currentPlayerId)),
                        players[Other(id)].position) = NoPath
  /\ \E w \in WallSlots \ called.accepted : \A i \in 1 .. Len(walls) : ~Colliding(walls[i], w)

(***************************************************************************)
(* Local play with the handlers called on any destination and any groove   *)
(***************************************************************************)
\* handleCellClick(to) = handleMove(to) called with any cell of the board
requestMove ==
  /\ gameState \in {"PLAYING", "GAME_OVER"}
  /\ called = NoCall
  /\ \E to \in Cells :
       /\ called' = [type |-> "handleMove", to |-> to]
       /\ handleMove(render, to, selectedPiece)
  /\ UNCHANGED << aiThinking, pendingAi, aiCalls >>

\* handlePlaceWall(wall) called with any groove of the board
requestWall ==
  /\ gameState \in {"PLAYING", "GAME_OVER"}
  /\ called = NoCall
  /\ \E wall \in WallSlots :
       /\ called' = [type |-> "handlePlaceWall", wall |-> wall]
       /\ handlePlaceWall(render, wall, wallPreview)
  /\ UNCHANGED << aiThinking, pendingAi, aiCalls >>

\* a game played through the board and the buttons, until one such call
NextRequests ==
  \/ called = NoCall /\ Next
  \/ requestMove
  \/ requestWall

SpecRequests == Init /\ [][NextRequests]_vars

Requested(type) == called = NoCall /\ called' # NoCall /\ called'.type = type

LegalMovesNow ==
  SeqToSet(getPossibleMoves(players[currentPlayerId].position, walls,
                            players[Other(currentPlayerId)].position))

SnapshotKept ==
  /\ players' = players
  /\ walls' = walls
  /\ currentPlayerId' = currentPlayerId
  /\ winner' = winner
  /\ turnTime' = turnTime

\* C13: a requested move to a cell that is no legal destination, and a
\* requested wall whose owner has no wall left, that collides with a
\* committed wall or that encloses a player, leave positions, walls left,
\* walls, the player to act, the winner and the turn clock as they were
C13_IllegalRequestKeepsSnapshot ==
  [][/\ (Requested("handleMove") /\ called'.to \notin LegalMovesNow) => SnapshotKept
     /\ (Requested("handlePlaceWall") /\ ~LegalPlacement(called'.wall)) => SnapshotKept]_vars

\* a wall that collides with nothing was requested by a player with a wall
\* left and refused for enclosing a player; the same player is to act
C13_Witness ==
  /\ called # NoCall
  /\ called.type = "handlePlaceWall"
  /\ gameState = "PLAYING"
  /\ players[currentPlayerId].wallsLeft > 0
  /\ \A i \in 1 .. Len(walls) : ~Colliding(walls[i], called.wall)
  /\ ~LegalPlacement(called.wall)

(***************************************************************************)
(* findShortestPath on its own                                             *)
(***************************************************************************)
\* any two pawns on different cells and any committed walls, enclosing or
\* not; the player to act is the one whose path is searched
InitPaths ==
  /\ gameState = "PLAYING"
  /\ gameMode = "CALL"
  /\ difficulty = "MEDIUM"
  /\ aiType = "LOCAL"
  /\ startPosition = "CENTER"
  /\ walls \in WallListsIn
  /\ currentPlayerId \in {1, 2}
  /\ \E p1 \in Cells, p2 \in Cells :
       /\ p1 # p2
       /\ players = << playerAt(1, p1, INITIAL_WALLS), playerAt(2, p2, INITIAL_WALLS) >>
  /\ winner = NoWinner
  /\ selectedPiece = NoPos
  /\ validMoves = << >>
  /\ isPlacingWall = FALSE
  /\ wallPreview = NoWall
  /\ gameTime = 0
  /\ turnTime = MaxDuration
  /\ configuredTurnTime = MaxDuration
  /\ gameDuration = MaxDuration
  /\ reconciled = NoCall
  /\ aiThinking = FALSE
  /\ pendingAi = NoCall
  /\ aiCalls = 0
  /\ called = NoCall
  /\ onlinePlayerId = NoSeat
  /\ inbox = << >>
  /\ onlineGameId = NoGame
  /\ onlineRequestTimeout = NoTimer
  /\ timers = {}
  /\ pendingRequest = NoRequest
  /\ requests = 0

\* findShortestPath(position, goalRow, walls) and
\* findShortestPath(position, goalRow, walls, opponentPos) for the player to act
findPaths ==
  /\ called = NoCall
  /\ called' = [type |-> "findShortestPath",
                topological |-> findShortestPath(players[currentPlayerId].position,
                                                 players[currentPlayerId].goalRow, walls, NoPos),
                tactical |-> findShortestPath(players[currentPlayerId].position,
                                              players[currentPlayerId].goalRow, walls,
                                              players[Other(currentPlayerId)].position)]
  /\ UNCHANGED << gameState, gameMode, difficulty, aiType, onlinePlayerId, onlineRequest, inbox, startPosition, players, walls, currentPlayerId, winner,
                  selectedPiece, validMoves, isPlacingWall, wallPreview, gameTime, turnTime,
                  configuredTurnTime, gameDuration, reconciled, aiThinking, pendingAi, aiCalls >>

NextPaths == findPaths

SpecPaths == InitPaths /\ [][NextPaths]_vars

PathsFound == called # NoCall /\ called.type = "findShortestPath"

\* the cells one step away from a: over a free edge when opp = NoPos, a
\* legal pawn move around the pawn on opp otherwise
AllowedSteps(a, ws, opp) ==
  IF opp = NoPos THEN FreeSteps(a, ws) ELSE SeqToSet(getPossibleMoves(a, ws, opp))

\* the least number of allowed steps from a cell of the frontier to the
\* goal row, n steps having led to the frontier; -1 when there is none
RECURSIVE StepsToRow(_, _, _, _, _, _)
StepsToRow(frontier, seen, goalRow, ws, opp, n) ==
  IF {cell \in frontier : cell.r = goalRow} # {} THEN n
  ELSE IF frontier = {} THEN -1
  ELSE CHOOSE d \in
         {StepsToRow(next, seen \cup next, goalRow, ws, opp, n + 1) :
            next \in {UNION {AllowedSteps(a, ws, opp) : a \in frontier} \ seen}} : TRUE

\* path is what the claim allows the search to return
RightPath(path, start, goalRow, ws, opp) ==
  LET least == StepsToRow({start}, {start}, goalRow, ws, opp, 0)
  IN IF least = -1
       THEN path = NoPath
       ELSE /\ path # NoPath
            /\ path[1] = start
            /\ path[Len(path)].r = goalRow
            /\ \A i \in 1 .. Len(path) - 1 : path[i + 1] \in AllowedSteps(path[i], ws, opp)
            /\ Len(path) - 1 = least

\* C14: findShortestPath returns no path exactly when the goal row cannot
\* be reached by allowed steps; otherwise its path starts at the start cell,
\* ends on the goal row, takes allowed steps only and has the least number
\* of steps, in the walls-only search and in the search around the opponent
C14_ShortestPath ==
  PathsFound =>
    /\ RightPath(called.topological, Mover, players[currentPlayerId].goalRow, walls, NoPos)
    /\ RightPath(called.tactical, Mover, players[currentPlayerId].goalRow, walls, Opponent)

\* the search around the opponent returned a path of three cells or more
\* that jumps over the opponent, and the walls-only path is a different one
C14_Witness ==
  /\ PathsFound
  /\ Len(called.tactical) >= 3
  /\ \E i \in 1 .. Len(called.tactical) - 1 :
       ~Adjacent(called.tactical[i], called.tactical[i + 1])
  /\ called.topological # NoPath
  /\ Len(called.topological) # Len(called.tactical)

\* no route is left to the goal row and both searches returned none
C14_WitnessNoPath ==
  /\ PathsFound
  /\ called.topological = NoPath
  /\ called.tactical = NoPath

\* the cells the search around the pawn on opp expands cell p to: the
\* neighbours it collects that pass the test of the board
ExpandedFrom(p, ws, opp) == {n \in SeqToSet(searchNeighbors(p, ws, opp)) : OnBoard(n)}

\* C33: on any walls and around any pawn, the search expands every other
\* cell of the board to the legal moves of a pawn on that cell, and the
\* first step of the path it returns for the player to act is a legal move
\* of that player's pawn
C33_SearchStepsAreLegalMoves ==
  /\ \A p \in Cells \ {Opponent} :
       ExpandedFrom(p, walls, Opponent) = SeqToSet(getPossibleMoves(p, walls, Opponent))
  /\ (PathsFound /\ called.tactical # NoPath /\ Len(called.tactical) > 1) =>
       called.tactical[2] \in SeqToSet(getPossibleMoves(Mover, walls, Opponent))

\* the path found around the opponent starts with a jump to the side of
\* it, a cell the walls-only search does not expand the pawn's cell to
C33_Witness ==
  /\ PathsFound
  /\ called.tactical # NoPath
  /\ Len(called.tactical) > 1
  /\ called.tactical[2].r # Mover.r
  /\ called.tactical[2].c # Mover.c
  /\ called.tactical[2] \notin ExpandedFrom(Mover, walls, NoPos)
  /\ Opponent \in ExpandedFrom(Mover, walls, NoPos)

(***************************************************************************)
(* getLocalAiMove on its own                                               *)
(***************************************************************************)
\* the AI is player 2 and is to act, with or without walls left; the pawns
\* are on different cells and neither is on its goal row; the committed
\* walls are any walls that do not collide, enclosing or not
InitLocalAi ==
  /\ gameState = "PLAYING"
  /\ gameMode = "CALL"
  /\ difficulty = "MEDIUM"
  /\ aiType = "LOCAL"
  /\ startPosition = "CENTER"
  /\ walls \in WallListsIn
  /\ currentPlayerId = 2
  /\ \E p1 \in Cells, p2 \in Cells, left \in {0, INITIAL_WALLS} :
       /\ p1 # p2
       /\ p1.r # 0
       /\ p2.r # BOARD_SIZE - 1
       /\ players = << playerAt(1, p1, INITIAL_WALLS), playerAt(2, p2, left) >>
  /\ winner = NoWinner
  /\ selectedPiece = NoPos
  /\ validMoves = << >>
  /\ isPlacingWall = FALSE
  /\ wallPreview = NoWall
  /\ gameTime = 0
  /\ turnTime = MaxDuration
  /\ configuredTurnTime = MaxDuration
  /\ gameDuration = MaxDuration
  /\ reconciled = NoCall
  /\ aiThinking = FALSE
  /\ pendingAi = NoCall
  /\ aiCalls = 0
  /\ called = NoCall
  /\ onlinePlayerId = NoSeat
  /\ inbox = << >>
  /\ onlineGameId = NoGame
  /\ onlineRequestTimeout = NoTimer
  /\ timers = {}
  /\ pendingRequest = NoRequest
  /\ requests = 0

\* getLocalAiMove(players[2], players[1], walls, difficulty, checkWall) at
\* each difficulty
chooseLocalAiMove ==
  /\ called = NoCall
  /\ called' = [type |-> "getLocalAiMove",
                action |-> [d \in Difficulties |-> getLocalAiMove(players[2], players[1], walls, d)]]
  /\ UNCHANGED << gameState, gameMode, difficulty, aiType, onlinePlayerId, onlineRequest, inbox, startPosition, players, walls, currentPlayerId, winner,
                  selectedPiece, validMoves, isPlacingWall, wallPreview, gameTime, turnTime,
                  configuredTurnTime, gameDuration, reconciled, aiThinking, pendingAi, aiCalls >>

NextLocalAi == chooseLocalAiMove

SpecLocalAi == InitLocalAi /\ [][NextLocalAi]_vars

AiMoveChosen == called # NoCall /\ called.type = "getLocalAiMove"

Ai == players[2]

Human == players[1]

\* the AI's path around the opponent's pawn, and the opponent's around the AI's
MyPath == findShortestPath(Ai.position, Ai.goalRow, walls, Human.position)

OppPath == findShortestPath(Human.position, Human.goalRow, walls, Ai.position)

AiLegalMoves == getPossibleMoves(Ai.position, walls, Human.position)

\* the legal moves of the AI's pawn that start towards its k-th neighbour,
\* in the order up, down, left, right
MovesTowards(k) ==
  LET n == potentialMoves(Ai.position)[k]
  IN IF ~OnBoard(n) \/ ~StepFree(Ai.position, n, walls) THEN {}
     ELSE IF n = Human.position
       THEN {m \in SeqToSet(AiLegalMoves) : ~Adjacent(Ai.position, m)}
       ELSE {n}

CandidateMove ==
  IF MyPath # NoPath THEN MyPath[2]
  ELSE IF AiLegalMoves # << >> THEN AiLegalMoves[1]
  ELSE NoPos

\* C15: a move returned by getLocalAiMove goes to myPath[1] when the AI has
\* a path around the opponent, otherwise to the first legal move in the
\* order up, down, left, right; when there is no legal move either, PASS
\* is returned at every difficulty, never a move to the AI's own cell and
\* never a wall
C15_CandidateMove ==
  AiMoveChosen =>
    /\ \A d \in Difficulties :
         /\ called.action[d].action \in {"MOVE", "PLACE_WALL", "PASS"}
         /\ called.action[d].action = "MOVE" =>
              called.action[d].position = CandidateMove /\ CandidateMove # Ai.position
         /\ called.action[d].action = "PASS" <=> AiLegalMoves = << >>
    /\ (MyPath = NoPath /\ AiLegalMoves # << >>) =>
         \E k \in 1 .. 4 :
           /\ CandidateMove \in MovesTowards(k)
           /\ \A j \in 1 .. k - 1 : MovesTowards(j) = {}

\* the AI, with a wall left, has no legal move and HARD returned PASS
C15_Witness ==
  /\ AiMoveChosen
  /\ Ai.wallsLeft > 0
  /\ AiLegalMoves = << >>
  /\ called.action["HARD"].action = "PASS"

\* the AI has no path around the opponent but a legal move that is not
\* upwards, and EASY returned it
C15_WitnessNoPath ==
  /\ AiMoveChosen
  /\ MyPath = NoPath
  /\ MovesTowards(1) = {}
  /\ called.action["EASY"].action = "MOVE"

\* the candidate move as an action, PASS when there is none
CandidateAction ==
  IF CandidateMove = NoPos THEN AiAction("PASS", NoPos, "none")
  ELSE AiAction("MOVE", CandidateMove, "none")

\* C16: at EASY getLocalAiMove returns the candidate move, or PASS when
\* there is none, and so never a wall, whatever the position, the walls
\* and the walls left
C16_EasyNeverWalls ==
  AiMoveChosen =>
    /\ called.action["EASY"].action # "PLACE_WALL"
    /\ called.action["EASY"] = CandidateAction

\* with a wall left, EASY moves in a position where HARD places a wall
C16_Witness ==
  /\ AiMoveChosen
  /\ Ai.wallsLeft > 0
  /\ called.action["EASY"].action = "MOVE"
  /\ called.action["HARD"].action = "PLACE_WALL"

MyLen == pathLength(MyPath)

OppLen == pathLength(OppPath)

\* C17: at MEDIUM getLocalAiMove returns a wall only if the AI has walls
\* left and the opponent's path is strictly shorter than the AI's; with no
\* walls left, tied or ahead it returns the candidate move
C17_MediumWallOnlyWhenBehind ==
  AiMoveChosen =>
    /\ called.action["MEDIUM"].action = "PLACE_WALL" => (Ai.wallsLeft > 0 /\ OppLen < MyLen)
    /\ (Ai.wallsLeft = 0 \/ OppLen >= MyLen) => called.action["MEDIUM"] = CandidateAction

\* MEDIUM placed a wall against an opponent whose path is the shorter one
C17_Witness ==
  /\ AiMoveChosen
  /\ called.action["MEDIUM"].action = "PLACE_WALL"
  /\ OppLen < MyLen

\* tied, with a wall left, MEDIUM moved
C17_WitnessTied ==
  /\ AiMoveChosen
  /\ Ai.wallsLeft > 0
  /\ OppLen = MyLen
  /\ OppLen < Infinity
  /\ called.action["MEDIUM"].action = "MOVE"

\* the walls crossing edge i of path p: across the middle of the step, at
\* the primary groove and, where there is one, at the groove shifted by one
\* towards the top or the left
EdgeWalls(p, i) ==
  LET a == p[i]
      b == p[i + 1]
  IN IF a.r = b.r
       THEN << [r |-> a.r, c |-> Min(a.c, b.c) + 1, orientation |-> "vertical"] >>
            \o (IF a.r > 0
                  THEN << [r |-> a.r - 1, c |-> Min(a.c, b.c) + 1, orientation |-> "vertical"] >>
                  ELSE << >>)
       ELSE << [r |-> Min(a.r, b.r) + 1, c |-> a.c, orientation |-> "horizontal"] >>
            \o (IF a.c > 0
                  THEN << [r |-> Min(a.r, b.r) + 1, c |-> a.c - 1, orientation |-> "horizontal"] >>
                  ELSE << >>)

\* the candidate walls of the first four edges at most of path p, in order
LeadingWalls(p) ==
  LET n == Min(Len(p) - 1, 4)
      at(i) == IF i <= n THEN EdgeWalls(p, i) ELSE << >>
  IN at(1) \o at(2) \o at(3) \o at(4)

\* the Wall Validator on a wall of the AI
AiWallLegal(w) == isValidWallPlacement(WithOwner(w, Ai.id), walls, Human, Ai)

\* the walls crossing the first edge of the opponent's path: the primary
\* groove, then the one shifted by one
FirstEdgeWalls == EdgeWalls(OppPath, 1)

WallAction(w) == AiAction("PLACE_WALL", Pos(w.r, w.c), w.orientation)

\* C18 as stated: at MEDIUM, with a wall left and the opponent strictly
\* ahead, the first wall of the first edge that the validator accepts is
\* returned, and the candidate move only when neither is accepted
C18_FirstEdgeFirstAccepted ==
  (AiMoveChosen /\ Ai.wallsLeft > 0 /\ OppLen < MyLen) =>
    LET accepted == SelectSeq(FirstEdgeWalls, AiWallLegal)
    IN IF accepted # << >>
         THEN called.action["MEDIUM"] = WallAction(accepted[1])
         ELSE called.action["MEDIUM"] = CandidateAction

\* both path lengths once wall w is added to the committed walls
LengthsWith(w) ==
  [opp |-> pathLength(findShortestPath(Human.position, Human.goalRow,
                                       Append(walls, WithOwner(w, Ai.id)), Ai.position)),
   my |-> pathLength(findShortestPath(Ai.position, Ai.goalRow,
                                      Append(walls, WithOwner(w, Ai.id)), Human.position))]

\* the legal walls of the list W that leave the AI a path, each with its
\* place in the list and its score
\* (newOppPathLen - oppPathLen) - (newSelfPathLen - selfPathLen)
ScoredWalls(W, oppLen, myLen) ==
  UNION {{[idx |-> i, wall |-> W[i],
           score |-> IF len.opp = Infinity \/ myLen = Infinity
                       THEN Infinity
                       ELSE (len.opp - oppLen) - (len.my - myLen)] :
            len \in {l \in {LengthsWith(W[i])} : l.my # Infinity}} :
           i \in {j \in 1 .. Len(W) : AiWallLegal(W[j])}}

NoCandidate == [idx |-> 0, wall |-> NoWall, score |-> -Infinity]

\* the first of the walls of S with the greatest score
FirstBest(S) ==
  IF S = {} THEN NoCandidate
  ELSE CHOOSE x \in S : \A y \in S : x.score > y.score \/ (x.score = y.score /\ x.idx <= y.idx)

\* the best candidate wall: over the walls crossing the first four edges at
\* most of the opponent's path, two per edge
BestCandidate ==
  CHOOSE best \in
    {IF in.p = NoPath THEN NoCandidate
     ELSE FirstBest(ScoredWalls(LeadingWalls(in.p), Len(in.p), in.my)) :
       in \in {[p |-> OppPath, my |-> MyLen]}} : TRUE

\* C18, amended: at MEDIUM, with a wall left and the opponent strictly
\* ahead, the legal walls crossing the first four edges at most of the
\* opponent's path are scored and the first of those with the greatest
\* score is returned when that score is positive; otherwise the candidate
\* move is returned
C18_MediumBestScoredWall ==
  (AiMoveChosen /\ Ai.wallsLeft > 0 /\ OppLen < MyLen) =>
    IF BestCandidate.score > 0
      THEN called.action["MEDIUM"] = WallAction(BestCandidate.wall)
      ELSE called.action["MEDIUM"] = CandidateAction

\* behind, MEDIUM placed a wall that crosses a later edge of the opponent's
\* path than the first
C18_Witness ==
  /\ AiMoveChosen
  /\ Ai.wallsLeft > 0
  /\ OppLen < MyLen
  /\ called.action["MEDIUM"].action = "PLACE_WALL"
  /\ BestCandidate.idx > Len(FirstEdgeWalls)

\* behind, MEDIUM moved although the validator accepts a wall across the
\* first edge
C18_WitnessMove ==
  /\ AiMoveChosen
  /\ Ai.wallsLeft > 0
  /\ OppLen < MyLen
  /\ called.action["MEDIUM"].action = "MOVE"
  /\ SelectSeq(FirstEdgeWalls, AiWallLegal) # << >>

\* C19 as stated: at HARD, with a wall left, losing or tied, and a best
\* candidate wall of positive score, that wall is returned
C19_HardWallWhenNotAhead ==
  (AiMoveChosen /\ Ai.wallsLeft > 0 /\ MyLen >= OppLen /\ BestCandidate.score > 0) =>
    called.action["HARD"] = WallAction(BestCandidate.wall)

\* C19, amended: at HARD, with a wall left and a best candidate wall of
\* positive score, that wall is returned whenever the AI's path is strictly
\* longer than the opponent's; when the two are equal it is returned only
\* if its score is 3 or more, and the candidate move otherwise
C19_HardWallWhenBehind ==
  (AiMoveChosen /\ Ai.wallsLeft > 0 /\ BestCandidate.score > 0) =>
    /\ MyLen > OppLen => called.action["HARD"] = WallAction(BestCandidate.wall)
    /\ MyLen = OppLen =>
         called.action["HARD"] = IF BestCandidate.score >= 3
                                   THEN WallAction(BestCandidate.wall)
                                   ELSE CandidateAction

\* behind by two steps or more, HARD placed a wall of score 2
C19_Witness ==
  /\ AiMoveChosen
  /\ MyLen < Infinity
  /\ MyLen >= OppLen + 2
  /\ BestCandidate.score = 2
  /\ called.action["HARD"].action = "PLACE_WALL"

\* tied, with a wall left and a best wall of score 1 or 2, HARD moved
C19_WitnessTied ==
  /\ AiMoveChosen
  /\ Ai.wallsLeft > 0
  /\ MyLen = OppLen
  /\ BestCandidate.score \in {1, 2}
  /\ called.action["HARD"].action = "MOVE"

\* C20: at HARD, when the AI's path is strictly shorter than the
\* opponent's, a wall is returned if and only if the AI has a wall left and
\* the best candidate wall has score 3 or more; with a best score of 1 or 2
\* or no legal candidate the candidate move is returned
C20_HardWallWhenAhead ==
  (AiMoveChosen /\ MyLen < OppLen) =>
    called.action["HARD"] = IF Ai.wallsLeft > 0 /\ BestCandidate.score >= 3
                              THEN WallAction(BestCandidate.wall)
                              ELSE CandidateAction

\* ahead, HARD placed a wall that lengthens the opponent's path by three
\* steps or more than its own
C20_Witness ==
  /\ AiMoveChosen
  /\ MyLen < OppLen
  /\ OppLen < Infinity
  /\ BestCandidate.score >= 3
  /\ BestCandidate.score < Infinity
  /\ called.action["HARD"].action = "PLACE_WALL"

\* ahead, with a wall left and a best wall of score 1 or 2, HARD moved
C20_WitnessMove ==
  /\ AiMoveChosen
  /\ Ai.wallsLeft > 0
  /\ MyLen < OppLen
  /\ BestCandidate.score \in {1, 2}
  /\ called.action["HARD"].action = "MOVE"

\* the walls HARD chooses among: the walls crossing the first four edges at
\* most of the opponent's path that the validator accepts and that leave
\* the AI a path, each with its place and its score
HardCandidates ==
  IF OppPath = NoPath THEN {} ELSE ScoredWalls(LeadingWalls(OppPath), Len(OppPath), MyLen)

\* C32: a wall returned at HARD crosses one of the first four edges at most
\* of the opponent's path, at the primary groove or at the one shifted by
\* one (eight walls at most); the validator accepts it, it leaves the AI a
\* path, and no candidate accepted and leaving the AI a path has a greater
\* score or the same score at an earlier place
C32_HardWallBestOfCandidates ==
  (AiMoveChosen /\ called.action["HARD"].action = "PLACE_WALL") =>
    /\ Len(LeadingWalls(OppPath)) <= 8
    /\ \E x \in HardCandidates :
         /\ called.action["HARD"] = WallAction(x.wall)
         /\ AiWallLegal(x.wall)
         /\ LengthsWith(x.wall).my # Infinity
         /\ x.score = IF LengthsWith(x.wall).opp = Infinity THEN Infinity
                      ELSE (LengthsWith(x.wall).opp - OppLen) - (LengthsWith(x.wall).my - MyLen)
         /\ \A y \in HardCandidates : y.score < x.score \/ (y.score = x.score /\ y.idx >= x.idx)

\* HARD placed a wall that is neither the first candidate the validator
\* accepts nor the only one of its score: an accepted candidate before it
\* scores less and one after it scores the same
C32_Witness ==
  /\ AiMoveChosen
  /\ called.action["HARD"].action = "PLACE_WALL"
  /\ \E x, y, z \in HardCandidates :
       /\ called.action["HARD"] = WallAction(x.wall)
       /\ y.idx < x.idx /\ y.score < x.score
       /\ z.idx > x.idx /\ z.score = x.score /\ z.wall # x.wall

(***************************************************************************)
(* Player against the local AI: executeAiMove with aiType LOCAL            *)
(***************************************************************************)
\* the AI trigger effect fires executeAiMove, whose local branch has no
\* await: the action is chosen and committed from the render that fired it
executeLocalAiMove ==
  /\ gameState = "PLAYING"
  /\ gameMode = "PVC"
  /\ aiType = "LOCAL"
  /\ currentPlayerId = 2
  /\ winner = NoWinner
  /\ players # NoPlayers
  /\ ~aiThinking
  /\ applyAiAction(render, getLocalAiMove(players[2], players[1], walls, difficulty))
  /\ UNCHANGED << aiThinking, pendingAi, aiCalls, called >>

NextPvc ==
  \/ startGame("PVC", "LOCAL", Difficulties)
  \/ playAgain
  \/ returnToMenu
  \/ handleCellClick
  \/ handleWallPreview
  \/ confirmWallPlacement
  \/ cancelWallPlacement
  \/ togglePlacingWall
  \/ gameTick
  \/ turnTick
  \/ executeLocalAiMove

SpecPvc == Init /\ [][NextPvc]_vars

\* the wall list ws with owners in turn, player 1 first
ownedInTurn(ws) == [i \in 1 .. Len(ws) |-> WithOwner(ws[i], 2 - (i % 2))]

wallsOwnedBy(id, ws) == Cardinality({i \in 1 .. Len(ws) : ws[i].playerId = id})

leftAfter(id, ws) ==
  IF wallsOwnedBy(id, ws) >= INITIAL_WALLS THEN 0 ELSE INITIAL_WALLS - wallsOwnedBy(id, ws)

\* a game against the local AI in which the AI is to act, on any wall list
\* and any two cells off the goal rows, the enclosing lists included
InitAiTurn ==
  /\ gameState = "PLAYING"
  /\ gameMode = "PVC"
  /\ difficulty \in Difficulties
  /\ aiType = "LOCAL"
  /\ startPosition = "CENTER"
  /\ walls \in {ownedInTurn(ws) : ws \in WallListsIn}
  /\ currentPlayerId = 2
  /\ \E p1 \in Cells, p2 \in Cells :
       /\ p1 # p2
       /\ p1.r # 0
       /\ p2.r # BOARD_SIZE - 1
       /\ players = << playerAt(1, p1, leftAfter(1, walls)), playerAt(2, p2, leftAfter(2, walls)) >>
  /\ winner = NoWinner
  /\ selectedPiece = NoPos
  /\ validMoves = << >>
  /\ isPlacingWall = FALSE
  /\ wallPreview = NoWall
  /\ gameTime = 0
  /\ turnTime \in Durations
  /\ configuredTurnTime = MaxDuration
  /\ gameDuration = MaxDuration
  /\ reconciled = NoCall
  /\ aiThinking = FALSE
  /\ pendingAi = NoCall
  /\ aiCalls = 0
  /\ called = NoCall
  /\ onlinePlayerId = NoSeat
  /\ inbox = << >>
  /\ onlineGameId = NoGame
  /\ onlineRequestTimeout = NoTimer
  /\ timers = {}
  /\ pendingRequest = NoRequest
  /\ requests = 0

SpecAiTurn == InitAiTurn /\ [][NextPvc]_vars

(***************************************************************************)
(* Online play: the client of one seat and the channel of the game         *)
(***************************************************************************)
\* an online game that has just started, on the client that created it
\* (seat 1)
InitOnline ==
  /\ gameState = "PLAYING"
  /\ gameMode = "PVO"
  /\ difficulty = "MEDIUM"
  /\ aiType = "LOCAL"
  /\ startPosition = "CENTER"
  /\ players = << newPlayer(1, BOARD_SIZE \div 2), newPlayer(2, BOARD_SIZE \div 2) >>
  /\ walls = << >>
  /\ currentPlayerId = 1
  /\ winner = NoWinner
  /\ onlinePlayerId = 1
  /\ selectedPiece = players[1].position
  /\ validMoves = getPossibleMoves(players[1].position, walls, players[2].position)
  /\ isPlacingWall = FALSE
  /\ wallPreview = NoWall
  /\ gameTime = 0
  /\ configuredTurnTime = MaxDuration
  /\ gameDuration = configuredTurnTime
  /\ turnTime = configuredTurnTime
  /\ reconciled = NoCall
  /\ aiThinking = FALSE
  /\ pendingAi = NoCall
  /\ aiCalls = 0
  /\ called = NoCall
  /\ inbox = << >>
  /\ onlineGameId = 1
  /\ onlineRequestTimeout = NoTimer
  /\ timers = {}
  /\ pendingRequest = NoRequest
  /\ requests = 1

\* gameHasStarted of updateStateFromOnline: both seats are taken
gameHasStarted(data) == Len(data.players) = 2

\* updateStateFromOnline of the render h for the snapshot data: the
\* snapshot replaces the state of the game, the request timer that the
\* render knows is cleared once both players are present, and the screen
\* follows the snapshot
updateStateFromOnlineIn(h, data) ==
  /\ players' = data.players
  /\ walls' = data.walls
  /\ currentPlayerId' = data.currentPlayerId
  /\ winner' = data.winner
  /\ gameTime' = data.gameTime
  /\ turnTime' = data.turnTime
  /\ IF gameHasStarted(data) /\ h.onlineRequestTimeout # NoTimer
       THEN /\ timers' = {t \in timers : t.id # h.onlineRequestTimeout}
            /\ onlineRequestTimeout' = NoTimer
       ELSE UNCHANGED << timers, onlineRequestTimeout >>
  /\ gameState' = IF data.winner # NoWinner
                    THEN "GAME_OVER"
                    ELSE IF gameHasStarted(data) /\ h.gameState # "PLAYING"
                           THEN "PLAYING"
                           ELSE gameState

\* the subscription of the client delivers the next snapshot of the
\* channel to the updateStateFromOnline of the current render
updateStateFromOnline ==
  /\ onlineGameId # NoGame
  /\ inbox # << >>
  /\ updateStateFromOnlineIn([gameState |-> gameState,
                              onlineRequestTimeout |-> onlineRequestTimeout],
                             Head(inbox).data)
  /\ UNCHANGED << gameMode, difficulty, aiType, onlinePlayerId, onlineGameId, pendingRequest,
                  requests, startPosition, isPlacingWall, wallPreview, configuredTurnTime,
                  gameDuration, reconciled, aiThinking, pendingAi, aiCalls, called >>
  /\ selectionEffect(FALSE, selectedPiece, validMoves)
  /\ inbox' = Tail(inbox) \o timeoutEffect

\* the snapshot last published on the channel
latest == IF inbox = << >> THEN currentState ELSE inbox[Len(inbox)].data

\* what handleMove and handlePlaceWall check of an action of seat id on the
\* snapshot state before they publish its successor
validIn(state, action, id) ==
  CASE action.type = "MOVE" ->
         action.to \in SeqToSet(getPossibleMoves(state.players[id].position, state.walls,
                                                 state.players[Other(id)].position))
    [] action.type = "PLACE_WALL" ->
         /\ state.players[id].wallsLeft > 0
         /\ isValidWallPlacement(WithOwner(action.wall, id), state.walls, state.players[1],
                                 state.players[2])
    [] OTHER -> TRUE

\* the client of the other seat, holding the latest snapshot with its seat
\* to act, publishes one successor of it
remotePublish ==
  /\ onlinePlayerId # NoSeat
  /\ gameState \in {"PLAYING", "GAME_OVER"}
  /\ Len(inbox) < MaxInFlight
  /\ latest.currentPlayerId = Other(onlinePlayerId)
  /\ latest.winner = NoWinner
  /\ \E action \in ActionsIn :
       /\ validIn(latest, action, Other(onlinePlayerId))
       /\ inbox' = Append(inbox, message(applyActionToState(latest, action, Other(onlinePlayerId)),
                                         Other(onlinePlayerId), latest))
  /\ UNCHANGED << gameState, gameMode, difficulty, aiType, onlinePlayerId, onlineRequest, startPosition, players,
                  walls, currentPlayerId, winner, selectedPiece, validMoves, isPlacingWall,
                  wallPreview, gameTime, turnTime, configuredTurnTime, gameDuration, reconciled,
                  aiThinking, pendingAi, aiCalls, called >>

NextOnline ==
  \/ handleCellClick
  \/ handleWallPreview
  \/ confirmWallPlacement
  \/ cancelWallPlacement
  \/ togglePlacingWall
  \/ gameTick
  \/ turnTick
  \/ updateStateFromOnline
  \/ remotePublish
  \/ returnToMenu

SpecOnline == InitOnline /\ [][NextOnline]_vars

(***************************************************************************)
(* Online play: creating a game, looking for a match, and their timeouts   *)
(***************************************************************************)
\* the most creation or matchmaking requests of a behaviour
MaxRequests == 2

\* what the callbacks that handleCreateOnlineGame and handleFindMatch
\* register read from the closure of the render in which the button was
\* pressed
requestRender ==
  [gameState |-> gameState, configuredTurnTime |-> configuredTurnTime,
   onlineGameId |-> onlineGameId, onlineRequestTimeout |-> onlineRequestTimeout]

\* the first snapshot of a game both players are in
startedGame(p1, p2Col, duration) ==
  [players |-> << p1, newPlayer(2, p2Col) >>, walls |-> << >>, currentPlayerId |-> 1,
   winner |-> NoWinner, gameTime |-> 0, turnTime |-> duration]

\* what resetGameState of the current render and the handler after it set
\* when a request is made
requestMade(duration) ==
  /\ walls' = << >>
  /\ currentPlayerId' = 1
  /\ winner' = NoWinner
  /\ isPlacingWall' = FALSE
  /\ gameTime' = 0
  /\ gameMode' = "PVO"
  /\ configuredTurnTime' = duration
  /\ gameDuration' = duration
  /\ requests' = requests + 1
  /\ inbox' = << >>
  /\ UNCHANGED << difficulty, aiType, startPosition, wallPreview, reconciled >>

\* the Create Game button: the part of handleCreateOnlineGame before the
\* answer of createGame
handleCreateOnlineGame ==
  /\ gameState = "MENU"
  /\ pendingRequest = NoRequest
  /\ requests < MaxRequests
  /\ \E duration \in Durations, startPos \in {"CENTER", "RANDOM"}, p1Col \in Rows :
       /\ startPos = "CENTER" => p1Col = BOARD_SIZE \div 2
       /\ requestMade(duration)
       /\ players' = << newPlayer(1, p1Col) >>
  /\ turnTime' = configuredTurnTime
  /\ onlinePlayerId' = NoSeat
  /\ resetOnlineRequest
  /\ gameState' = "ONLINE_WAITING"
  /\ pendingRequest' = [kind |-> "create", h |-> requestRender]
  /\ selectionEffect(TRUE, NoPos, << >>)
  /\ awaitGetAiMove

\* createGame answers with the id of the game: the rest of
\* handleCreateOnlineGame, which registers the five-minute timer whose
\* callback calls the returnToMenu of the render of the button
createGameAnswers ==
  /\ pendingRequest.kind = "create"
  /\ onlineGameId' = requests
  /\ onlinePlayerId' = 1
  /\ timers' = timers \cup {[id |-> requests, kind |-> "create", h |-> pendingRequest.h]}
  /\ onlineRequestTimeout' = requests
  /\ pendingRequest' = NoRequest
  /\ UNCHANGED << gameState, gameMode, difficulty, aiType, startPosition, players, walls,
                  currentPlayerId, winner, isPlacingWall, wallPreview, gameTime, turnTime,
                  configuredTurnTime, gameDuration, reconciled, requests, inbox >>
  /\ selectionEffect(FALSE, selectedPiece, validMoves)
  /\ awaitGetAiMove

\* the opponent follows the link while the client waits: the service
\* publishes the first snapshot of the started game
remoteJoin ==
  /\ gameState = "ONLINE_WAITING"
  /\ onlineGameId # NoGame
  /\ inbox = << >>
  /\ inbox' = << message(startedGame(players[1], (BOARD_SIZE - 1) - players[1].position.c,
                                     configuredTurnTime),
                         2,
                         [players |-> players, walls |-> walls,
                          currentPlayerId |-> currentPlayerId, winner |-> winner]) >>
  /\ UNCHANGED << gameState, gameMode, difficulty, aiType, onlinePlayerId, onlineRequest,
                  startPosition, players, walls, currentPlayerId, winner, selectedPiece,
                  validMoves, isPlacingWall, wallPreview, gameTime, turnTime,
                  configuredTurnTime, gameDuration, reconciled, aiThinking, pendingAi,
                  aiCalls, called >>

\* the callback that handleFindMatch gives to findMatch, of the render h of
\* the button, called with the seat and the first snapshot of the match
onMatched(h, playerId, initialState) ==
  /\ updateStateFromOnlineIn(h, initialState)
  /\ onlineGameId' = requests
  /\ onlinePlayerId' = playerId

\* the Find Match button: handleFindMatch, which gives findMatch the
\* callback of the match and registers the three-minute timer, both of the
\* render of the button
handleFindMatch ==
  /\ gameState = "MENU"
  /\ pendingRequest = NoRequest
  /\ requests < MaxRequests
  /\ \E duration \in Durations : requestMade(duration)
  /\ turnTime' = configuredTurnTime
  /\ onlinePlayerId' = NoSeat
  /\ gameState' = "ONLINE_WAITING"
  /\ onlineGameId' = NoGame
  /\ pendingRequest' = [kind |-> "match", h |-> requestRender]
  /\ timers' = {t \in timers : t.id # onlineRequestTimeout}
                 \cup {[id |-> requests', kind |-> "match", h |-> requestRender]}
  /\ onlineRequestTimeout' = requests'
  /\ UNCHANGED players
  /\ selectionEffect(TRUE, NoPos, << >>)
  /\ awaitGetAiMove

\* the service has found a match and calls the callback of handleFindMatch
matchFound ==
  /\ pendingRequest.kind = "match"
  /\ \E playerId \in {1, 2} :
       onMatched(pendingRequest.h, playerId,
                 startedGame(newPlayer(1, BOARD_SIZE \div 2), BOARD_SIZE \div 2,
                             configuredTurnTime))
  /\ pendingRequest' = NoRequest
  /\ UNCHANGED << gameMode, difficulty, aiType, startPosition, isPlacingWall, wallPreview,
                  configuredTurnTime, gameDuration, reconciled, requests, aiThinking, pendingAi,
                  aiCalls, called >>
  /\ selectionEffect(FALSE, selectedPiece, validMoves)
  /\ inbox' = inbox \o timeoutEffect

\* the timer callback with a resetGameState that keeps the game id and the
\* seat of the client
onlineRequestExpires_keepsGame ==
  /\ \E t \in timers :
       /\ timers' = {u \in timers : u # t /\ u.id # t.h.onlineRequestTimeout}
       /\ pendingRequest' = IF t.kind = "match" THEN NoRequest ELSE pendingRequest
       /\ turnTime' = t.h.configuredTurnTime
       /\ inbox' = IF t.h.onlineGameId # NoGame /\ t.h.onlineGameId = onlineGameId
                     THEN << >>
                     ELSE inbox
  /\ gameState' = "MENU"
  /\ walls' = << >>
  /\ currentPlayerId' = 1
  /\ winner' = NoWinner
  /\ isPlacingWall' = FALSE
  /\ gameTime' = 0
  /\ onlineRequestTimeout' = NoTimer
  /\ UNCHANGED << onlineGameId, onlinePlayerId >>
  /\ UNCHANGED << gameMode, difficulty, aiType, startPosition, players, wallPreview,
                  configuredTurnTime, gameDuration, reconciled, requests >>
  /\ selectionEffect(TRUE, NoPos, << >>)
  /\ awaitGetAiMove

\* a timer registered by handleCreateOnlineGame or handleFindMatch goes
\* off: its callback cancels the search for a match and calls the
\* returnToMenu of the render h of the button, whose resetGameState reads
\* the game id, the timer id and the turn duration of that render
onlineRequestExpires ==
  /\ \E t \in timers :
       /\ timers' = {u \in timers : u # t /\ u.id # t.h.onlineRequestTimeout}
       /\ pendingRequest' = IF t.kind = "match" THEN NoRequest ELSE pendingRequest
       /\ turnTime' = t.h.configuredTurnTime
       /\ inbox' = IF t.h.onlineGameId # NoGame /\ t.h.onlineGameId = onlineGameId
                     THEN << >>
                     ELSE inbox
  /\ gameState' = "MENU"
  /\ walls' = << >>
  /\ currentPlayerId' = 1
  /\ winner' = NoWinner
  /\ isPlacingWall' = FALSE
  /\ gameTime' = 0
  /\ onlineRequestTimeout' = NoTimer
  /\ onlineGameId' = NoGame
  /\ onlinePlayerId' = NoSeat
  /\ UNCHANGED << gameMode, difficulty, aiType, startPosition, players, wallPreview,
                  configuredTurnTime, gameDuration, reconciled, requests >>
  /\ selectionEffect(TRUE, NoPos, << >>)
  /\ awaitGetAiMove

\* the Cancel Search button of the waiting dialog, shown while there is a
\* timer and no game id: cancelFindMatch and the returnToMenu of the
\* current render
handleCancelFindMatch ==
  /\ gameState = "ONLINE_WAITING"
  /\ onlineGameId = NoGame
  /\ onlineRequestTimeout # NoTimer
  /\ pendingRequest' = NoRequest
  /\ gameState' = "MENU"
  /\ walls' = << >>
  /\ currentPlayerId' = 1
  /\ winner' = NoWinner
  /\ isPlacingWall' = FALSE
  /\ gameTime' = 0
  /\ turnTime' = configuredTurnTime
  /\ onlinePlayerId' = NoSeat
  /\ resetOnlineRequest
  /\ UNCHANGED << gameMode, difficulty, aiType, startPosition, players, wallPreview,
                  configuredTurnTime, gameDuration, reconciled, requests, inbox >>
  /\ selectionEffect(TRUE, NoPos, << >>)
  /\ awaitGetAiMove

\* the Cancel Game button of the waiting dialog, shown while there is a
\* game id: the returnToMenu of the current render, which leaves the game
handleCancelCreateGame ==
  /\ gameState = "ONLINE_WAITING"
  /\ onlineGameId # NoGame
  /\ gameState' = "MENU"
  /\ walls' = << >>
  /\ currentPlayerId' = 1
  /\ winner' = NoWinner
  /\ isPlacingWall' = FALSE
  /\ gameTime' = 0
  /\ turnTime' = configuredTurnTime
  /\ onlinePlayerId' = NoSeat
  /\ inbox' = << >>
  /\ resetOnlineRequest
  /\ UNCHANGED << gameMode, difficulty, aiType, startPosition, players, wallPreview,
                  configuredTurnTime, gameDuration, reconciled, pendingRequest, requests >>
  /\ selectionEffect(TRUE, NoPos, << >>)
  /\ awaitGetAiMove

\* the requests, their answers and timers, and the play that follows; the
\* wall placement of the client, which reads and writes nothing of a
\* request, is played under SpecOnline
NextOnlineRequest ==
  \/ handleCreateOnlineGame
  \/ createGameAnswers
  \/ remoteJoin
  \/ handleFindMatch
  \/ matchFound
  \/ onlineRequestExpires
  \/ handleCancelFindMatch
  \/ handleCancelCreateGame
  \/ handleCellClick
  \/ gameTick
  \/ turnTick
  \/ updateStateFromOnline
  \/ remotePublish
  \/ returnToMenu

SpecOnlineRequest == Init /\ [][NextOnlineRequest]_vars

(***************************************************************************)
(* Properties of play against the AI                                       *)
(***************************************************************************)
\* the AI (player 2) is to act in a game against it
AiTurn == gameState = "PLAYING" /\ gameMode = "PVC" /\ currentPlayerId = 2

\* C21: in a game against the AI, every step taken while the AI is to act
\* that moves the AI's pawn moves it to a legal move from its cell on the
\* current walls and positions, and every wall it commits is one the wall
\* validator accepts for the AI on the current walls and positions
C21_AiActionsLegal ==
  [][(AiTurn /\ gameState' # "MENU") =>
       /\ players'[2].position # players[2].position =>
            players'[2].position \in SeqToSet(getPossibleMoves(players[2].position, walls,
                                                               players[1].position))
       /\ Len(walls') = Len(walls) + 1 =>
            isValidWallPlacement(walls'[Len(walls')], walls, players[1], players[2])]_vars

\* the step on which the remote call of executeAiMove answers
AiAnswers == pendingAi # NoCall /\ pendingAi' = NoCall

\* what a step commits: a move of the AI's pawn, a wall, or a pass of the turn
AiMoveCommitted ==
  /\ players'[2].position # players[2].position
  /\ walls' = walls

AiWallCommitted ==
  /\ Len(walls') = Len(walls) + 1
  /\ \A id \in {1, 2} : players'[id].position = players[id].position

PassCommitted ==
  /\ players' = players
  /\ walls' = walls
  /\ currentPlayerId' # currentPlayerId

\* C22: when the remote call of an invocation of the AI answers, whatever
\* the answer, exactly one move, wall or pass is committed and afterwards
\* the game is over or the human player is to act
C22_AiTurnCompletes ==
  [][AiAnswers =>
       /\ gameState' = "GAME_OVER" \/ currentPlayerId' = 1
       /\ AiMoveCommitted \/ AiWallCommitted \/ PassCommitted]_vars

\* the AI has no legal move and no path to its goal row
Trapped ==
  /\ getPossibleMoves(players[2].position, walls, players[1].position) = << >>
  /\ findShortestPath(players[2].position, players[2].goalRow, walls, players[1].position) = NoPath

\* player 1 has committed a move or a wall
HumanActed ==
  \/ players'[1].position # players[1].position
  \/ /\ Len(walls') = Len(walls) + 1
     /\ walls'[Len(walls')].playerId = 1

\* C23: while the trapped AI is to act, no step but leaving the game changes
\* the positions, the walls or the walls left; the step that takes the turn
\* from it hands the turn to the human with the turn clock at the configured
\* duration, the game still played and no winner; and the turn comes back to
\* the AI only by a move or wall of the human
C23_TrappedAiPasses ==
  [][/\ (AiTurn /\ Trapped /\ gameState' # "MENU") =>
          /\ players' = players
          /\ walls' = walls
          /\ currentPlayerId' # currentPlayerId =>
               /\ currentPlayerId' = 1
               /\ turnTime' = configuredTurnTime
               /\ gameState' = "PLAYING"
               /\ winner' = NoWinner
     /\ (gameState = "PLAYING" /\ gameMode = "PVC" /\ currentPlayerId = 1 /\ currentPlayerId' = 2) =>
          HumanActed]_vars

\* the trapped AI has passed: the human is to act with a full turn clock
\* while the AI still has no move and no path
C23_Witness ==
  /\ gameState = "PLAYING"
  /\ gameMode = "PVC"
  /\ aiType = "LOCAL"
  /\ currentPlayerId = 1
  /\ winner = NoWinner
  /\ Trapped
  /\ turnTime = configuredTurnTime
  /\ selectedPiece = players[1].position

(***************************************************************************)
(* Properties of online play                                               *)
(***************************************************************************)
\* C24: of the snapshots published on the channel of an online game, no two
\* are successors computed from one and the same snapshot
C24_OneSuccessorPerSnapshot ==
  \A i, j \in 1 .. Len(inbox) : i # j => inbox[i].from # inbox[j].from

\* the snapshots on the channel that this client published
OwnMessages == {i \in 1 .. Len(inbox) : inbox[i].by = onlinePlayerId}

\* message i is the successor by TIMEOUT of the snapshot it was computed from
IsTimeout(i) ==
  /\ inbox[i].from.winner = NoWinner
  /\ inbox[i].data.winner # NoWinner
  /\ inbox[i].data.players = inbox[i].from.players
  /\ inbox[i].data.walls = inbox[i].from.walls

\* in its own copy of the snapshot the client had the turn when it
\* published, and its TIMEOUT names the other seat as winner
PublishedOnOwnTurn ==
  \A i \in OwnMessages :
    /\ inbox[i].from.currentPlayerId = onlinePlayerId
    /\ IsTimeout(i) => inbox[i].data.winner = Other(onlinePlayerId)

\* the snapshot shared on the channel when the client published, which is
\* the one published just before, had the client's seat to act
PublishedOnSharedTurn ==
  \A i \in OwnMessages : i > 1 => inbox[i - 1].data.currentPlayerId = onlinePlayerId

\* C37: every snapshot this client publishes is published while the shared
\* snapshot has its seat to act, and so is its own copy; its TIMEOUT names
\* the other seat as winner; and its turn clock only runs while, in its
\* copy, its seat is to act
C37_PublishesOnlyOnOwnTurn ==
  /\ [](PublishedOnOwnTurn /\ PublishedOnSharedTurn)
  /\ [][turnTick => currentPlayerId = onlinePlayerId]_vars

(***************************************************************************)
(* Properties of the snapshot over a game and from one game to the next    *)
(***************************************************************************)
\* a step that starts a game: from the menu, or by Play Again
EntersPlaying == gameState # "PLAYING" /\ gameState' = "PLAYING"

\* C25: a step that enters PLAYING with a new local game leaves both
\* players with the wall allotment, player 1 on the last row with goal row 0
\* and player 2 on row 0 with the last row as goal, on columns of the board,
\* no wall, player 1 to act, no winner, the game clock at 0 and the turn
\* clock at the duration configured by that step
C25_NewGameRebuilt ==
  [][EntersPlaying =>
       /\ DOMAIN players' = {1, 2}
       /\ \A id \in {1, 2} :
            /\ players'[id].id = id
            /\ players'[id].wallsLeft = INITIAL_WALLS
            /\ players'[id].position.c \in 0 .. BOARD_SIZE - 1
       /\ players'[1].position.r = BOARD_SIZE - 1
       /\ players'[1].goalRow = 0
       /\ players'[2].position.r = 0
       /\ players'[2].goalRow = BOARD_SIZE - 1
       /\ walls' = << >>
       /\ currentPlayerId' = 1
       /\ winner' = NoWinner
       /\ gameTime' = 0
       /\ turnTime' = configuredTurnTime'
       /\ gameDuration' = configuredTurnTime']_vars

\* a game has just started after an earlier one: the wall previewed in the
\* earlier game is still there although no wall is being placed
C25_Witness ==
  /\ gameState = "PLAYING"
  /\ wallPreview # NoWall
  /\ ~isPlacingWall
  /\ walls = << >>
  /\ gameTime = 0
  /\ turnTime = configuredTurnTime
  /\ currentPlayerId = 1
  /\ winner = NoWinner
  /\ \A id \in {1, 2} : players[id].wallsLeft = INITIAL_WALLS
  /\ players[1].position.r = BOARD_SIZE - 1
  /\ players[2].position.r = 0

\* the frame of a move committed for player id: its position and nothing else
MoveFrame(id) ==
  /\ players'[id].position # players[id].position
  /\ players' = [players EXCEPT ![id].position = players'[id].position]
  /\ walls' = walls

\* the frame of a wall committed for player id: the wall list grows by one
\* wall owned by id, and id has one wall less
WallFrame(id) ==
  /\ Len(walls') = Len(walls) + 1
  /\ walls' = Append(walls, walls'[Len(walls')])
  /\ walls'[Len(walls')].playerId = id
  /\ players' = [players EXCEPT ![id].wallsLeft = @ - 1]

\* C26: while a game is played, a step that changes a player record or the
\* wall list (and does not leave the game) is a move of the acting player,
\* which changes that player's position only, or a wall of the acting
\* player, which appends the confirmed wall with that player as owner and
\* takes one from that player's walls left only
C26_CommitFrame ==
  [][(gameState = "PLAYING" /\ gameState' # "MENU" /\ (players' # players \/ walls' # walls)) =>
       \/ MoveFrame(Actor)
       \/ /\ WallFrame(Actor)
          /\ AiAnswers \/ AiTurn \/ walls'[Len(walls')] = WithOwner(wallPreview, Actor)]_vars

\* C27: whenever the players exist, both pawns stand on cells of the board
\* and not on the same cell
C27_PawnsApartOnBoard ==
  players # NoPlayers =>
    /\ OnBoard(players[1].position)
    /\ OnBoard(players[2].position)
    /\ players[1].position # players[2].position

\* in a game against the AI both pawns have left their rows, the AI by the
\* action its call was answered with, and stand side by side
C27_Witness ==
  /\ gameState = "PLAYING"
  /\ gameMode = "PVC"
  /\ aiCalls = 1
  /\ pendingAi = NoCall
  /\ players[1].position.r # BOARD_SIZE - 1
  /\ players[2].position.r # 0
  /\ Abs(players[1].position.r - players[2].position.r)
       + Abs(players[1].position.c - players[2].position.c) = 1

\* a game is on or over, as opposed to the menu
InGame == gameState \in {"PLAYING", "GAME_OVER"} /\ players # NoPlayers

Conserved(id) ==
  /\ players[id].wallsLeft >= 0
  /\ players[id].wallsLeft + wallsOwnedBy(id, walls) = INITIAL_WALLS

WallFromStock ==
  (InGame /\ Len(walls') > Len(walls)) =>
    players[walls'[Len(walls')].playerId].wallsLeft > 0

\* C28: in every state of a game (playing or over) each player's wallsLeft is at least 0 and,
\* added to the number of walls of the list that the player owns, gives the
\* allotment; and no step adds a wall for a player whose wallsLeft is 0
C28_WallConservation ==
  /\ [](InGame => Conserved(1) /\ Conserved(2))
  /\ [][WallFromStock]_vars

\* the walls committed so far are the first walls of the list after the step
WallsKept ==
  /\ Len(walls') >= Len(walls)
  /\ \A i \in 1 .. Len(walls) : walls'[i] = walls[i]

\* C29: every step keeps every wall of the list, with its row, column,
\* orientation and owner and in its place, unless the step starts a new game
\* or leaves for the menu
C29_WallsOnlyGrow ==
  [][WallsKept \/ EntersPlaying \/ gameState' = "MENU"]_vars

(***************************************************************************)
(* Properties of the answer of a remote AI call that comes late           *)
(***************************************************************************)
\* the situation the pending call was sent for has ended: the game is over
\* or left for the menu, or the game being played is no longer in the state
\* the call was sent from
SituationEnded ==
  /\ pendingAi # NoCall
  /\ gameState # "PLAYING" \/ pendingAi.h # render

\* C30: a step on which the remote call answers after its situation has
\* ended moves no pawn, places no wall, sets no winner and does not switch
\* the turn
C30_StaleSuggestionDropped ==
  [][(SituationEnded /\ AiAnswers) =>
       UNCHANGED << players, walls, winner, currentPlayerId >>]_vars

(***************************************************************************)
(* Properties of the human player's input while the AI is to act          *)
(***************************************************************************)
\* a step of one of the input operations of the human player
HumanInput ==
  \/ handleCellClick
  \/ handleWallPreview
  \/ confirmWallPlacement
  \/ cancelWallPlacement
  \/ togglePlacingWall

\* C31: in a game against the AI, while the AI is to act no input operation
\* of the human player moves a pawn, changes a player record, adds a wall or
\* switches the turn, and every step that does so without leaving the game
\* is the step on which the AI's call answers
C31_NoHumanCommitOnAiTurn ==
  [][AiTurn =>
       /\ HumanInput => UNCHANGED << players, walls, currentPlayerId >>
       /\ (gameState' # "MENU" /\ ~AiAnswers) => UNCHANGED << players, walls, currentPlayerId >>]_vars

\* the AI is to act and its call has been pending over another event, while
\* the human player has a wall left and nothing to click: no valid move is
\* shown, no wall is being placed and none is previewed
C31_Witness ==
  /\ AiTurn
  /\ aiThinking
  /\ pendingAi # NoCall
  /\ pendingAi.age >= 1
  /\ players[1].wallsLeft > 0
  /\ validMoves = << >>
  /\ ~isPlacingWall
  /\ wallPreview = NoWall

(***************************************************************************)
(* Properties of the committed walls                                       *)
(***************************************************************************)
\* the walls of the list that close the boundary between cells a and b
WallsAcross(a, b) == {i \in 1 .. Len(walls) : Blocks(walls[i], a, b)}

\* C34: between any two orthogonally adjacent cells of the board at most
\* one wall of the committed list closes the boundary
C34_OneWallPerBoundary ==
  \A a \in Cells : \A b \in Cells :
    Adjacent(a, b) => Cardinality(WallsAcross(a, b)) <= 1

(***************************************************************************)
(* Properties of the end of a local game                                   *)
(***************************************************************************)
\* C35: the game is over exactly when there is a winner, so that there is
\* none in the menu and while playing, and no step replaces a winner by the
\* other player
C35_WinnerAgreesWithGameOver ==
  /\ [](gameState = "GAME_OVER" <=> winner # NoWinner)
  /\ [][(winner # NoWinner /\ winner' # NoWinner) => winner' = winner]_vars


(***************************************************************************)
(* Properties of the turn clock in local play                              *)
(***************************************************************************)
\* the turn of player id in a game being played
TurnOf(id) == gameState = "PLAYING" /\ currentPlayerId = id

WaitingExpires == gameState = "ONLINE_WAITING" /\ onlineRequestExpires

\* the client is back at the menu, in no game, with nothing pending
RequestAborted ==
  /\ gameState = "MENU"
  /\ onlineGameId = NoGame
  /\ onlinePlayerId = NoSeat
  /\ onlineRequestTimeout = NoTimer
  /\ timers = {}
  /\ pendingRequest = NoRequest

C39_StartedGameNotAborted ==
  /\ [](gameState \in {"PLAYING", "GAME_OVER"} => timers = {})
  /\ [][onlineRequestExpires => gameState = "ONLINE_WAITING"]_vars

====
